---- MODULE Spec2Model ----
(***************************************************************************)
(* State-machine model of the caching subsystem of youtubesnapshots:       *)
(*   - the durable store adapters GCSCache (gcscache.py) and LocalCache    *)
(*     (localcache.py),                                                    *)
(*   - the multi-level cache FastCache (app.py) with its in-memory LRU     *)
(*     tier, the asyncio coroutines that suspend on the durable store and  *)
(*     the fire-and-forget background writes,                              *)
(*   - the coherence check check_cache_parallel (app.py).                  *)
(*                                                                         *)
(* Event-loop steps (the code between two awaits that really suspend) are  *)
(* atomic actions; executor-thread work is a separate action that may run  *)
(* at any time between the suspension and the resumption of a coroutine.   *)
(***************************************************************************)
EXTENDS Integers, Sequences, FiniteSets, TLC

VARIABLES
    backend,        \* "gcs" | "local": which durable adapter this process runs
    store,          \* durable tier: object name / file path -> [content, time]
    now,            \* wall clock, in hours
    dres,           \* the last direct call of a durable adapter method
    thr,            \* executor threads inside the adapter: a getter, the purge
    memory_cache,   \* FastCache.memory_cache: cache_key -> bytes
    access_order,   \* FastCache.access_order: deque of cache_key
    metadata_cache, \* FastCache.metadata_cache: metadata_key -> list
    cache_stats,    \* FastCache.cache_stats
    tasks,          \* get_screenshot coroutines: position and locals
    writes,         \* scheduled _store_gcs_background tasks not yet run
    chk,            \* the check_cache_parallel coroutine
    ev,             \* the last event-loop step of FastCache (history)
    hist,           \* history: true recency order, last stored value per key,
                    \* number of get_screenshot calls that are over
    stream_cache,   \* StreamCache.cache: video id -> streams, timestamp
    stream_now,     \* wall clock of the stream cache, in units of ten minutes
    sres,           \* the last call on the stream cache
    req,            \* the request handler: create_screenshots or cli_screenshot
    request_counts, \* rate limiter: client address -> deque of admission times
    rate_now,       \* time.time() of the rate limiter, in units of twenty seconds
    rres            \* the last request through the rate limiting middleware

vars == <<backend, store, now, dres, thr, memory_cache, access_order,
          metadata_cache, cache_stats, tasks, writes, chk, ev, hist,
          stream_cache, stream_now, sres, req, request_counts, rate_now, rres>>

durableVars == <<backend, store, now, thr>>
fastVars == <<memory_cache, access_order, metadata_cache, cache_stats>>
fastAll == <<fastVars, tasks, writes, chk, ev, hist>>
streamVars == <<stream_cache, stream_now, sres>>
rateVars == <<request_counts, rate_now, rres>>

-----------------------------------------------------------------------------
(* Bounds of the model *)

\* FastCache.max_memory_items is 100 in the source (app.py:41); the model
\* runs the same code with a small capacity.
max_memory_items == 2
\* Byte values a blob is made of: blobs are <<>>, <<1>>, ..., <<MaxByte>>.
MaxByte == 2
\* Number of event-loop steps of FastCache: a store_screenshot, the start of a
\* get_screenshot, the resumption of a get_screenshot.
MaxEvents == 4
\* The clock stops at MaxNow hours.
MaxNow == 49
\* Number of direct adapter calls in the durable-store specification.
MaxCalls == 3
\* Number of check_cache_parallel calls, one after the other.
MaxChecks == 2
\* StreamCache.max_items is 50 in the source; the model runs the same code
\* with a small capacity.
max_items == 2
\* FastCache.get_cached_metadata: "if len(self.metadata_cache) > 50"; the
\* model runs the same code with a small capacity.
metadata_max == 2
\* How many requests the handlers take.
MaxRequests == 1
\* RATE_LIMIT = 10 (src/app.py:21): the number of requests a client is
\* admitted in one window; the model runs the same code with a small limit.
RATE_LIMIT == 2
\* Number of requests through the rate limiting middleware.
MaxRateCalls == 4
\* The last instant of the rate limiter's clock.
MaxRateNow == 5

\* Number of calls on the stream cache.
MaxStreamCalls == 4
\* The stream cache's clock stops at MaxStreamNow units of ten minutes.
MaxStreamNow == 4

(* Program constants *)

\* GCSCache.cache_duration / LocalCache.cache_duration, in hours.
cache_duration == 24
\* StreamCache.cache_duration, timedelta(minutes=30), in units of ten minutes.
stream_cache_duration == 3
\* RATE_WINDOW = 60 seconds, in units of twenty seconds.
RATE_WINDOW == 3

-----------------------------------------------------------------------------
(* Values *)

None == [some |-> FALSE]
Some(x) == [some |-> TRUE, val |-> x]

\* Python truthiness of an Optional[bytes] / Optional[list]: None, b"" and []
\* are falsy.
Truthy(o) == o.some /\ o.val # <<>>

Videos == {"abc12345678"}
Timestamps == {90}
QualityOrder == <<"ultra", "high", "medium", "low">>
Qualities == {QualityOrder[i] : i \in 1..Len(QualityOrder)}

\* Image payloads: byte sequences, the empty one included.
Blobs == {<<>>} \cup {<<b>> : b \in 1..MaxByte}

Range(s) == {s[i] : i \in 1..Len(s)}

\* The descriptor lists create_screenshots can produce: one descriptor per
\* quality that was extracted, in the order of the streams; a descriptor is
\* represented by its 'quality' field.
RECURSIVE SubLists(_)
SubLists(s) ==
    IF s = <<>> THEN {<<>>}
    ELSE LET rest == SubLists(Tail(s))
         IN rest \cup {<<Head(s)>> \o r : r \in rest}

MetadataLists == SubLists(QualityOrder)

-----------------------------------------------------------------------------
(* Key derivation *)

\* FastCache: cache_key = f"{video_id}_{timestamp}_{quality}"
cache_key(v, t, q) == v \o "_" \o ToString(t) \o "_" \o q

\* FastCache: metadata_key = f"{video_id}_{timestamp}_metadata"
metadata_key(v, t) == v \o "_" \o ToString(t) \o "_metadata"

GCS_get_cache_key(v, t, q) ==
    "screenshots/" \o v \o "_" \o ToString(t) \o "_" \o q \o ".png"

GCS_get_metadata_key(v, t) ==
    "metadata/" \o v \o "_" \o ToString(t) \o ".json"

\* LocalCache(cache_dir="cache"): os.path.join(self.screenshots_dir, filename)
Local_get_cache_path(v, t, q) ==
    "cache/screenshots/" \o v \o "_" \o ToString(t) \o "_" \o q \o ".png"

Local_get_metadata_path(v, t) ==
    "cache/metadata/" \o v \o "_" \o ToString(t) \o ".json"

-----------------------------------------------------------------------------
(* JSON encoding of a descriptor list *)

\* json.dumps(metadata): the compact encoding, on one line.
json_dumps(m) == <<"json">> \o m
\* json.dump(metadata, f, indent=2): the indented encoding, one line per
\* element and field; the empty list is "[]" in both encodings.
json_dump_indent2(m) == IF m = <<>> THEN <<"json">> ELSE <<"json-indent-2">> \o m
IsJson(text) == text # <<>> /\ Head(text) \in {"json", "json-indent-2"}
\* json.loads / json.load of a well-formed text.
json_loads(text) == Tail(text)

-----------------------------------------------------------------------------
(* Durable store adapters.  Each method is an operator from the store, the  *)
(* clock, the arguments and the set F of backend calls that fail during the *)
(* call, to [result, raised, store].                                        *)

Outcome(r, s) == [result |-> r, raised |-> FALSE, store |-> s]

Remove(s, name) == [n \in DOMAIN s \ {name} |-> s[n]]

\* A variant of the write that keeps the creation time of an entry it replaces.
Put_keep_time(s, name, content, t) ==
    [n \in DOMAIN s \cup {name} |->
        IF n = name
        THEN [content |-> content, time |-> IF name \in DOMAIN s THEN s[name].time ELSE t]
        ELSE s[n]]

\* upload_from_string / open(path, 'w'): the entry is created or replaced, and
\* its creation (modification) time is the time of the write.
Put(s, name, content, t) ==
    [n \in DOMAIN s \cup {name} |->
        IF n = name THEN [content |-> content, time |-> t] ELSE s[n]]

GcsFailPoints == {"exists", "reload", "download", "fallback_download", "upload"}
LocalFailPoints == {"exists", "getmtime", "remove", "read", "getmtime_log",
                    "open", "write"}

\* The body of the "except Exception" of get_cached_screenshot: download anyway.
GCS_fallback_download(s, name, F) ==
    IF "fallback_download" \in F \/ name \notin DOMAIN s
    THEN Outcome(None, s)
    ELSE Outcome(Some(s[name].content), s)

GCS_get_cached_screenshot(s, clock, v, t, q, F) ==
    LET name == GCS_get_cache_key(v, t, q) IN
    IF "exists" \in F THEN Outcome(None, s)
    ELSE IF name \notin DOMAIN s THEN Outcome(None, s)
    ELSE IF "reload" \in F THEN GCS_fallback_download(s, name, F)
    ELSE IF clock - s[name].time >= cache_duration THEN Outcome(None, s)
    ELSE IF "download" \in F THEN GCS_fallback_download(s, name, F)
    ELSE Outcome(Some(s[name].content), s)

\* A variant whose blob.exists() is outside every try.
GCS_get_cached_metadata_unguarded(s, clock, v, t, F) ==
    LET name == GCS_get_metadata_key(v, t) IN
    IF "exists" \in F THEN [result |-> None, raised |-> TRUE, store |-> s]
    ELSE IF name \notin DOMAIN s THEN Outcome(None, s)
    ELSE IF "reload" \in F THEN Outcome(None, s)
    ELSE IF clock - s[name].time >= cache_duration THEN Outcome(None, s)
    ELSE IF "download" \in F THEN Outcome(None, s)
    ELSE IF ~IsJson(s[name].content) THEN Outcome(None, s)
    ELSE Outcome(Some(json_loads(s[name].content)), s)

GCS_get_cached_metadata(s, clock, v, t, F) ==
    LET name == GCS_get_metadata_key(v, t) IN
    IF "exists" \in F THEN Outcome(None, s)
    ELSE IF name \notin DOMAIN s THEN Outcome(None, s)
    ELSE IF "reload" \in F THEN Outcome(None, s)
    ELSE IF clock - s[name].time >= cache_duration THEN Outcome(None, s)
    ELSE IF "download" \in F THEN Outcome(None, s)
    ELSE IF ~IsJson(s[name].content) THEN Outcome(None, s)
    ELSE Outcome(Some(json_loads(s[name].content)), s)

GCS_cache_screenshot(s, clock, v, t, q, data, F) ==
    IF "upload" \in F THEN Outcome(None, s)
    ELSE Outcome(None, Put(s, GCS_get_cache_key(v, t, q), data, clock))

GCS_cache_metadata(s, clock, v, t, m, F) ==
    IF "upload" \in F THEN Outcome(None, s)
    ELSE Outcome(None, Put(s, GCS_get_metadata_key(v, t), json_dumps(m), clock))

\* LocalCache._is_file_expired: a failing getmtime counts as expired.
Local_is_file_expired(s, clock, path, F) ==
    IF path \notin DOMAIN s THEN TRUE
    ELSE IF "getmtime" \in F THEN TRUE
    ELSE clock - s[path].time >= cache_duration

\* os.remove inside its own try/except: a failure leaves the file.
Local_remove_expired(s, path, F) ==
    IF "remove" \in F THEN s ELSE Remove(s, path)

Local_get_cached_screenshot(s, clock, v, t, q, F) ==
    LET path == Local_get_cache_path(v, t, q) IN
    IF "exists" \in F \/ path \notin DOMAIN s THEN Outcome(None, s)
    ELSE IF Local_is_file_expired(s, clock, path, F)
         THEN Outcome(None, Local_remove_expired(s, path, F))
    ELSE IF "read" \in F THEN Outcome(None, s)
    ELSE IF "getmtime_log" \in F THEN Outcome(None, s)
    ELSE Outcome(Some(s[path].content), s)

Local_get_cached_metadata(s, clock, v, t, F) ==
    LET path == Local_get_metadata_path(v, t) IN
    IF "exists" \in F \/ path \notin DOMAIN s THEN Outcome(None, s)
    ELSE IF Local_is_file_expired(s, clock, path, F)
         THEN Outcome(None, Local_remove_expired(s, path, F))
    ELSE IF "read" \in F THEN Outcome(None, s)
    ELSE IF ~IsJson(s[path].content) THEN Outcome(None, s)
    ELSE Outcome(Some(json_loads(s[path].content)), s)

\* open(path, 'wb') truncates the file; a failing write leaves it empty.
Local_cache_screenshot(s, clock, v, t, q, data, F) ==
    LET path == Local_get_cache_path(v, t, q) IN
    IF "open" \in F THEN Outcome(None, s)
    ELSE IF "write" \in F THEN Outcome(None, Put(s, path, <<>>, clock))
    ELSE Outcome(None, Put(s, path, data, clock))

Local_cache_metadata(s, clock, v, t, m, F) ==
    LET path == Local_get_metadata_path(v, t) IN
    IF "open" \in F THEN Outcome(None, s)
    ELSE IF "write" \in F THEN Outcome(None, Put(s, path, <<>>, clock))
    ELSE Outcome(None, Put(s, path, json_dump_indent2(m), clock))

\* cleanup_expired_cache.  The names the two listings yield, in their order:
\* list_blobs(prefix="screenshots/") in the order of the names, then
\* list_blobs(prefix="metadata/").
ListingOrder == <<"high", "low", "medium", "ultra">>

ListedScreenshots(b) ==
    LET v == CHOOSE x \in Videos : TRUE
        t == CHOOSE x \in Timestamps : TRUE
    IN [i \in 1..Len(ListingOrder) |->
          IF b = "gcs" THEN GCS_get_cache_key(v, t, ListingOrder[i])
          ELSE Local_get_cache_path(v, t, ListingOrder[i])]

ListedMetadata(b) ==
    LET v == CHOOSE x \in Videos : TRUE
        t == CHOOSE x \in Timestamps : TRUE
    IN <<IF b = "gcs" THEN GCS_get_metadata_key(v, t) ELSE Local_get_metadata_path(v, t)>>

\* The backend calls of cleanup_expired_cache that may fail: the two listings
\* and, per entry, its delete (LocalCache: isfile, getmtime or remove).
CleanupFailPoints(b, s) ==
    {"list_screenshots", "list_metadata"}
        \cup ((Range(ListedScreenshots(b)) \cup Range(ListedMetadata(b))) \cap DOMAIN s)

\* "if blob_time < cutoff_time" / "if file_mtime < cutoff_time"
PurgeExpired(time, cutoff_time) == time < cutoff_time

\* GCSCache: one "for blob in ...list_blobs(prefix)" loop; an exception of
\* blob.delete() ends the whole call.
RECURSIVE GCS_cleanup_loop(_, _, _, _, _)
GCS_cleanup_loop(s, cutoff_time, names, F, deleted_count) ==
    IF names = <<>>
    THEN [store |-> s, deleted_count |-> deleted_count, raised |-> FALSE]
    ELSE LET n == Head(names) IN
         IF n \in DOMAIN s /\ PurgeExpired(s[n].time, cutoff_time)
         THEN IF n \in F
              THEN [store |-> s, deleted_count |-> deleted_count, raised |-> TRUE]
              ELSE GCS_cleanup_loop(Remove(s, n), cutoff_time, Tail(names), F,
                                    deleted_count + 1)
         ELSE GCS_cleanup_loop(s, cutoff_time, Tail(names), F, deleted_count)

GCS_cleanup_expired_cache(s, clock, F) ==
    LET cutoff_time == clock - cache_duration IN
    IF "list_screenshots" \in F THEN Outcome(Some(0), s)
    ELSE LET a == GCS_cleanup_loop(s, cutoff_time, ListedScreenshots("gcs"), F, 0) IN
         IF a.raised \/ "list_metadata" \in F THEN Outcome(Some(0), a.store)
         ELSE LET m == GCS_cleanup_loop(a.store, cutoff_time, ListedMetadata("gcs"),
                                        F, a.deleted_count) IN
              IF m.raised THEN Outcome(Some(0), m.store)
              ELSE Outcome(Some(m.deleted_count), m.store)

\* LocalCache: one "for filename in os.listdir(dir)" loop; an exception while
\* a file is processed is logged and the loop goes on.
RECURSIVE Local_cleanup_loop(_, _, _, _, _)
Local_cleanup_loop(s, cutoff_time, names, F, deleted_count) ==
    IF names = <<>>
    THEN [store |-> s, deleted_count |-> deleted_count]
    ELSE LET n == Head(names) IN
         IF n \in DOMAIN s /\ n \notin F /\ PurgeExpired(s[n].time, cutoff_time)
         THEN Local_cleanup_loop(Remove(s, n), cutoff_time, Tail(names), F,
                                 deleted_count + 1)
         ELSE Local_cleanup_loop(s, cutoff_time, Tail(names), F, deleted_count)

Local_cleanup_expired_cache(s, clock, F) ==
    LET cutoff_time == clock - cache_duration IN
    IF "list_screenshots" \in F THEN Outcome(Some(0), s)
    ELSE LET a == Local_cleanup_loop(s, cutoff_time, ListedScreenshots("local"), F, 0) IN
         IF "list_metadata" \in F THEN Outcome(Some(0), a.store)
         ELSE LET m == Local_cleanup_loop(a.store, cutoff_time,
                                          ListedMetadata("local"), F, a.deleted_count)
              IN Outcome(Some(m.deleted_count), m.store)

cleanup_expired_cache(b, s, clock, F) ==
    IF b = "gcs" THEN GCS_cleanup_expired_cache(s, clock, F)
    ELSE Local_cleanup_expired_cache(s, clock, F)

\* The adapter the process was configured with.
FailPoints(b) == IF b = "gcs" THEN GcsFailPoints ELSE LocalFailPoints

get_cached_screenshot(b, s, clock, v, t, q, F) ==
    IF b = "gcs" THEN GCS_get_cached_screenshot(s, clock, v, t, q, F)
    ELSE Local_get_cached_screenshot(s, clock, v, t, q, F)

get_cached_metadata(b, s, clock, v, t, F) ==
    IF b = "gcs" THEN GCS_get_cached_metadata(s, clock, v, t, F)
    ELSE Local_get_cached_metadata(s, clock, v, t, F)

cache_screenshot(b, s, clock, v, t, q, data, F) ==
    IF b = "gcs" THEN GCS_cache_screenshot(s, clock, v, t, q, data, F)
    ELSE Local_cache_screenshot(s, clock, v, t, q, data, F)

cache_metadata(b, s, clock, v, t, m, F) ==
    IF b = "gcs" THEN GCS_cache_metadata(s, clock, v, t, m, F)
    ELSE Local_cache_metadata(s, clock, v, t, m, F)

screenshot_name(b, v, t, q) ==
    IF b = "gcs" THEN GCS_get_cache_key(v, t, q) ELSE Local_get_cache_path(v, t, q)

metadata_name(b, v, t) ==
    IF b = "gcs" THEN GCS_get_metadata_key(v, t) ELSE Local_get_metadata_path(v, t)

-----------------------------------------------------------------------------
(* Direct calls of the adapter methods, and the clock *)

ReadFailPoints(b) == FailPoints(b) \ {"upload", "open", "write"}
WriteFailPoints(b) == FailPoints(b) \cap {"upload", "open", "write"}

\* The entry of that name is stored and cache_duration old or older.
Expired(s, clock, name) ==
    name \in DOMAIN s /\ clock - s[name].time >= cache_duration

NoWrite == [write |-> FALSE, over_expired |-> FALSE, elapsed |-> 0, arg |-> None]

\* What a getter follows: when the call before it was a write of the same
\* entry during which no backend call failed, the data written, the time
\* since, and whether the write replaced an expired entry.
Follows(op, name) ==
    IF /\ op \in {"get_cached_screenshot", "get_cached_metadata"}
       /\ dres.op \in {"cache_screenshot", "cache_metadata"}
       /\ dres.name = name /\ dres.fails = {}
    THEN [write |-> TRUE, over_expired |-> dres.was_expired,
          elapsed |-> now - dres.at, arg |-> dres.arg]
    ELSE NoWrite

\* The record of a call: its number, method, object name, argument (the data
\* of a write), result, the backend calls that failed, the time of the call,
\* whether it found an expired entry, and the write it follows.
Called(op, name, arg, o, F) ==
    [n |-> dres.n + 1, op |-> op, name |-> name, arg |-> arg,
     result |-> o.result, raised |-> o.raised, fails |-> F, at |-> now,
     was_expired |-> Expired(store, now, name),
     follows |-> Follows(op, name)]

DirectGetScreenshot(v, t, q, F) ==
    LET o == get_cached_screenshot(backend, store, now, v, t, q, F) IN
    /\ store' = o.store
    /\ dres' = Called("get_cached_screenshot", screenshot_name(backend, v, t, q), None, o, F)
    /\ UNCHANGED <<req, streamVars, rateVars, backend, now, thr, fastAll>>

DirectGetMetadata(v, t, F) ==
    LET o == get_cached_metadata(backend, store, now, v, t, F) IN
    /\ store' = o.store
    /\ dres' = Called("get_cached_metadata", metadata_name(backend, v, t), None, o, F)
    /\ UNCHANGED <<req, streamVars, rateVars, backend, now, thr, fastAll>>

DirectCacheScreenshot(v, t, q, data, F) ==
    LET o == cache_screenshot(backend, store, now, v, t, q, data, F) IN
    /\ store' = o.store
    /\ dres' = Called("cache_screenshot", screenshot_name(backend, v, t, q),
                       Some(data), o, F)
    /\ UNCHANGED <<req, streamVars, rateVars, backend, now, thr, fastAll>>

DirectCacheMetadata(v, t, m, F) ==
    LET o == cache_metadata(backend, store, now, v, t, m, F) IN
    /\ store' = o.store
    /\ dres' = Called("cache_metadata", metadata_name(backend, v, t), Some(m), o, F)
    /\ UNCHANGED <<req, streamVars, rateVars, backend, now, thr, fastAll>>

DirectCleanup(F) ==
    LET o == cleanup_expired_cache(backend, store, now, F) IN
    /\ store' = o.store
    /\ dres' = Called("cleanup_expired_cache", "", None, o, F)
    /\ UNCHANGED <<req, streamVars, rateVars, backend, now, thr, fastAll>>

\* Time passes: a little less than, exactly, or a little more than the
\* cache duration.
TickSteps == {cache_duration - 1, cache_duration, cache_duration + 1}

Tick(d) ==
    /\ now + d <= MaxNow
    /\ now' = now + d
    /\ UNCHANGED <<req, streamVars, rateVars, backend, store, dres, thr, fastAll>>

-----------------------------------------------------------------------------
(* The getters and the purge as executor threads: every backend call is one *)
(* step, so that the purge's deletes fall between the steps of a getter.    *)
(* Here a backend call fails only because the entry is gone.                *)

IdleGetter == [pc |-> "idle", kind |-> "", name |-> "", orig |-> None,
               data |-> None, result |-> None, raised |-> FALSE, lost |-> FALSE,
               n |-> 0]

IdlePurge == [pc |-> "idle", cutoff_time |-> 0, todo |-> <<>>, deleted_count |-> 0,
              n |-> 0]

\* LocalCache.cache_screenshot in an executor thread; 'passed' keeps the
\* (name, image_data) of every call made so far.
IdleWriter == [pc |-> "idle", name |-> "", image_data |-> <<>>, written |-> 0,
               passed |-> {}, n |-> 0]

\* A variant of the handlers that lets the exception reach the caller.
Swallowed_propagates(g) ==
    [g EXCEPT !.pc = "done", !.result = None, !.raised = TRUE, !.lost = TRUE]

\* "except Exception as e: logger.error(...); return None": a backend call
\* found the entry gone.
Swallowed(g) ==
    [g EXCEPT !.pc = "done", !.result = None, !.raised = FALSE, !.lost = TRUE]

Finished(g, result) == [g EXCEPT !.pc = "done", !.result = result]

\* What the getter of this kind returns for a content it read.
Decoded(kind, content) ==
    IF kind = "screenshot" THEN Some(content)
    ELSE IF IsJson(content) THEN Some(json_loads(content)) ELSE None

GetterKeep(g) ==
    /\ thr' = [thr EXCEPT !.get = g]
    /\ UNCHANGED <<req, streamVars, rateVars, backend, store, now, dres, fastAll>>

\* get_cached_screenshot / get_cached_metadata is called.
GetterCall(kind, name) ==
    /\ thr.get.pc \in {"idle", "done"}
    /\ GetterKeep([IdleGetter EXCEPT
                     !.pc = "exists", !.kind = kind, !.name = name,
                     !.orig = IF name \in DOMAIN store
                              THEN Decoded(kind, store[name].content) ELSE None,
                     !.n = thr.get.n + 1])

\* blob.exists() / os.path.exists(path)
GetterExists ==
    /\ thr.get.pc = "exists"
    /\ GetterKeep(IF thr.get.name \notin DOMAIN store THEN Finished(thr.get, None)
                  ELSE [thr.get EXCEPT !.pc = IF backend = "gcs" THEN "reload"
                                              ELSE "is_file_expired"])

\* GCSCache: blob.reload(), then the expiry test on time_created.
GetterReload ==
    /\ thr.get.pc = "reload"
    /\ LET g == thr.get IN
       GetterKeep(IF g.name \notin DOMAIN store
                  THEN IF g.kind = "screenshot"
                       THEN [g EXCEPT !.pc = "fallback", !.lost = TRUE]
                       ELSE Swallowed(g)
                  ELSE IF now - store[g.name].time >= cache_duration
                       THEN Finished(g, None)
                       ELSE [g EXCEPT !.pc = "download"])

\* GCSCache: blob.download_as_bytes() / json.loads(blob.download_as_text())
GetterDownload ==
    /\ thr.get.pc = "download"
    /\ LET g == thr.get IN
       GetterKeep(IF g.name \notin DOMAIN store
                  THEN IF g.kind = "screenshot"
                       THEN [g EXCEPT !.pc = "fallback", !.lost = TRUE]
                       ELSE Swallowed(g)
                  ELSE Finished(g, Decoded(g.kind, store[g.name].content)))

\* GCSCache.get_cached_screenshot: the download of the except branch.
GetterFallback ==
    /\ thr.get.pc = "fallback"
    /\ LET g == thr.get IN
       GetterKeep(IF g.name \notin DOMAIN store THEN Swallowed(g)
                  ELSE Finished(g, Some(store[g.name].content)))

\* LocalCache._is_file_expired: os.path.exists(filepath)
GetterIsFileExpired ==
    /\ thr.get.pc = "is_file_expired"
    /\ GetterKeep(IF thr.get.name \notin DOMAIN store
                  THEN [thr.get EXCEPT !.pc = "remove", !.lost = TRUE]
                  ELSE [thr.get EXCEPT !.pc = "getmtime"])

\* LocalCache._is_file_expired: os.path.getmtime(filepath) and the age test;
\* an exception counts as expired.
GetterGetmtime ==
    /\ thr.get.pc = "getmtime"
    /\ LET g == thr.get IN
       GetterKeep(IF g.name \notin DOMAIN store
                  THEN [g EXCEPT !.pc = "remove", !.lost = TRUE]
                  ELSE IF now - store[g.name].time >= cache_duration
                       THEN [g EXCEPT !.pc = "remove"]
                       ELSE [g EXCEPT !.pc = "read"])

\* LocalCache: os.remove of the expired file in its own try, then return None.
GetterRemove ==
    /\ thr.get.pc = "remove"
    /\ store' = IF thr.get.name \in DOMAIN store THEN Remove(store, thr.get.name)
                ELSE store
    /\ thr' = [thr EXCEPT !.get = Finished(thr.get, None)]
    /\ UNCHANGED <<req, streamVars, rateVars, backend, now, dres, fastAll>>

\* LocalCache: open and read (json.load for metadata); the screenshot getter
\* goes on to read the modification time for its log line.
GetterRead ==
    /\ thr.get.pc = "read"
    /\ LET g == thr.get IN
       GetterKeep(IF g.name \notin DOMAIN store THEN Swallowed(g)
                  ELSE IF g.kind = "screenshot"
                       THEN [g EXCEPT !.pc = "getmtime_log",
                                      !.data = Some(store[g.name].content)]
                  ELSE Finished(g, Decoded(g.kind, store[g.name].content)))

\* LocalCache.get_cached_screenshot: os.path.getmtime for file_age, return data.
GetterLog ==
    /\ thr.get.pc = "getmtime_log"
    /\ LET g == thr.get IN
       GetterKeep(IF g.name \notin DOMAIN store THEN Swallowed(g)
                  ELSE Finished(g, g.data))

\* A listing: the entries stored under the prefix, GCSCache's with their
\* time_created.
Listing(names) ==
    LET there == SelectSeq(names, LAMBDA n : n \in DOMAIN store)
    IN [i \in 1..Len(there) |-> [name |-> there[i], time |-> store[there[i]].time]]

\* cleanup_expired_cache is called: cutoff_time, then the first listing.
PurgeCall ==
    /\ thr.purge.pc \in {"idle", "done"}
    /\ thr' = [thr EXCEPT !.purge =
                 [pc |-> "screenshots", cutoff_time |-> now - cache_duration,
                  todo |-> Listing(ListedScreenshots(backend)),
                  deleted_count |-> 0, n |-> thr.purge.n + 1]]
    /\ UNCHANGED <<req, streamVars, rateVars, backend, store, now, dres, fastAll>>

\* One round of a loop of cleanup_expired_cache: the time test and the
\* delete of one entry.  LocalCache skips a file that is gone (isfile);
\* GCSCache tests the time_created of the listing, and its delete of a blob
\* that is gone raises, which ends the call with 0.
PurgeEntry ==
    /\ thr.purge.pc \in {"screenshots", "metadata"}
    /\ thr.purge.todo # <<>>
    /\ LET p == thr.purge
           e == Head(p.todo)
           rest == [p EXCEPT !.todo = Tail(p.todo)]
           time == IF backend = "gcs" \/ e.name \notin DOMAIN store THEN e.time
                   ELSE store[e.name].time
       IN IF e.name \notin DOMAIN store
          THEN /\ thr' = [thr EXCEPT !.purge =
                            IF backend = "gcs" /\ PurgeExpired(time, p.cutoff_time)
                            THEN [p EXCEPT !.pc = "done", !.todo = <<>>,
                                           !.deleted_count = 0]
                            ELSE rest]
               /\ UNCHANGED store
          ELSE IF PurgeExpired(time, p.cutoff_time)
          THEN /\ store' = Remove(store, e.name)
               /\ thr' = [thr EXCEPT !.purge =
                            [rest EXCEPT !.deleted_count = p.deleted_count + 1]]
          ELSE /\ thr' = [thr EXCEPT !.purge = rest]
               /\ UNCHANGED store
    /\ UNCHANGED <<req, streamVars, rateVars, backend, now, dres, fastAll>>

\* The end of a loop: the second listing, or the return.
PurgeNext ==
    /\ thr.purge.pc \in {"screenshots", "metadata"}
    /\ thr.purge.todo = <<>>
    /\ thr' = [thr EXCEPT !.purge =
                 IF thr.purge.pc = "screenshots"
                 THEN [thr.purge EXCEPT !.pc = "metadata",
                         !.todo = Listing(ListedMetadata(backend))]
                 ELSE [thr.purge EXCEPT !.pc = "done"]]
    /\ UNCHANGED <<req, streamVars, rateVars, backend, store, now, dres, fastAll>>

-----------------------------------------------------------------------------
(* LocalCache.cache_screenshot as an executor thread: the open in mode 'wb' *)
(* and the writes that reach the file are separate steps, so that a getter  *)
(* can run between them.                                                    *)

WriterKeep(w) ==
    /\ thr' = [thr EXCEPT !.put = w]
    /\ UNCHANGED <<req, streamVars, rateVars, backend, now, dres, fastAll>>

\* cache_screenshot is called: the path, os.makedirs(..., exist_ok=True).
WriterCall(name, image_data) ==
    /\ thr.put.pc \in {"idle", "done"}
    /\ UNCHANGED store
    /\ WriterKeep([thr.put EXCEPT
                     !.pc = "open", !.name = name, !.image_data = image_data,
                     !.written = 0,
                     !.passed = @ \cup {[name |-> name, image_data |-> image_data]},
                     !.n = @ + 1])

\* open(cache_path, 'wb'): the file is created, or truncated to length zero.
WriterOpen ==
    /\ thr.put.pc = "open"
    /\ store' = Put(store, thr.put.name, <<>>, now)
    /\ WriterKeep([thr.put EXCEPT !.pc = "write"])

\* f.write(image_data), flushed by the end of the with block: the bytes reach
\* the file in one write or in several, each extending what is there.
WriterWrite ==
    /\ thr.put.pc = "write"
    /\ thr.put.written < Len(thr.put.image_data)
    /\ \E k \in (thr.put.written + 1)..Len(thr.put.image_data) :
         /\ store' = Put(store, thr.put.name, SubSeq(thr.put.image_data, 1, k), now)
         /\ WriterKeep([thr.put EXCEPT !.written = k])

\* The end of the with block (the file is closed) and the log line.
WriterClose ==
    /\ thr.put.pc = "write"
    /\ thr.put.written = Len(thr.put.image_data)
    /\ UNCHANGED store
    /\ WriterKeep([thr.put EXCEPT !.pc = "done"])

-----------------------------------------------------------------------------
(* FastCache: the in-memory tier *)

CacheKeys == {cache_key(v, t, q) : v \in Videos, t \in Timestamps, q \in Qualities}

EmptyMap == [k \in {} |-> None]

\* A variant of the assignment that stores nothing.
MapPut_drop(m, k, x) == m

\* "self.memory_cache[cache_key] = image_data"
MapPut(m, k, x) == [j \in DOMAIN m \cup {k} |-> IF j = k THEN x ELSE m[j]]

\* deque.remove(x): removes the first occurrence of x.
RemoveFirst(s, x) ==
    LET i == CHOOSE j \in 1..Len(s) : s[j] = x /\ \A h \in 1..(j - 1) : s[h] # x
    IN SubSeq(s, 1, i - 1) \o SubSeq(s, i + 1, Len(s))

\* A variant of the loop condition that lets the tier grow one past its size.
CacheFull_off_by_one(mem) == Cardinality(DOMAIN mem) > max_memory_items

\* _store_in_memory: "while len(self.memory_cache) >= self.max_memory_items"
CacheFull(mem) == Cardinality(DOMAIN mem) >= max_memory_items

\* The eviction loop of _store_in_memory.  popleft on an empty deque raises
\* IndexError, which ends the call with the state as it is.
RECURSIVE EvictLoop(_, _)
EvictLoop(mem, ord) ==
    IF CacheFull(mem)
    THEN IF ord = <<>>
         THEN [mem |-> mem, ord |-> ord, raised |-> TRUE]
         ELSE EvictLoop(IF Head(ord) \in DOMAIN mem THEN Remove(mem, Head(ord)) ELSE mem,
                        Tail(ord))
    ELSE [mem |-> mem, ord |-> ord, raised |-> FALSE]

\* A variant of the insert that keeps the value of a key already mapped.
store_in_memory_keep_old(mem, ord, key, image_data) ==
    LET e == EvictLoop(mem, ord) IN
    [mem |-> IF key \in DOMAIN e.mem THEN e.mem ELSE MapPut(e.mem, key, image_data),
     ord |-> IF e.raised THEN e.ord ELSE Append(e.ord, key),
     raised |-> e.raised,
     evicted |-> DOMAIN mem \ DOMAIN e.mem]

\* _store_in_memory; "evicted" reports the keys the loop deleted.
store_in_memory(mem, ord, key, image_data) ==
    LET e == EvictLoop(mem, ord) IN
    [mem |-> IF e.raised THEN e.mem ELSE MapPut(e.mem, key, image_data),
     ord |-> IF e.raised THEN e.ord ELSE Append(e.ord, key),
     raised |-> e.raised,
     evicted |-> DOMAIN mem \ DOMAIN e.mem]

\* A variant of the memory-hit branch that removes the key and does not
\* append it again.
touch_access_order_remove_only(ord, key) ==
    IF key \in Range(ord)
    THEN [ord |-> RemoveFirst(ord, key), raised |-> FALSE]
    ELSE [ord |-> ord, raised |-> TRUE]

\* The memory-hit branch of get_screenshot on the deque: remove, then append.
\* deque.remove raises ValueError when the key is not in the deque.
touch_access_order(ord, key) ==
    IF key \in Range(ord)
    THEN [ord |-> Append(RemoveFirst(ord, key), key), raised |-> FALSE]
    ELSE [ord |-> ord, raised |-> TRUE]

\* A variant of the increment that counts a lookup twice.
Bump_twice(stats, field) == [stats EXCEPT ![field] = @ + 2]

Bump(stats, field) == [stats EXCEPT ![field] = @ + 1]

-----------------------------------------------------------------------------
(* History kept beside the program state: the true recency order of the     *)
(* keys (least recently stored or read first) and, per key, the value of    *)
(* the last store_screenshot since the key was last evicted.                *)

Touch(order, key) == Append(SelectSeq(order, LAMBDA x : x # key), key)

\* After an insert of key that evicted the keys of "evicted"; isStore tells a
\* store_screenshot of image_data from the insert of a durable hit.
HistAfter(h, key, isStore, image_data, evicted) ==
    [completed |-> h.completed,
     touched |-> Touch(SelectSeq(h.touched, LAMBDA x : x \notin evicted), key),
     stored  |-> [k \in CacheKeys |->
                    IF k = key /\ isStore THEN Some(image_data)
                    ELSE IF k \in evicted THEN None
                    ELSE h.stored[k]]]

\* The key of the tier that was stored or read least recently.
TrueLRU(order) == Head(order)

\* One more get_screenshot call is over: it returned or it raised.
Completed(h) == [h EXCEPT !.completed = @ + 1]

-----------------------------------------------------------------------------
(* Coroutines *)

\* Two requests may be in flight at once.
FreeTasks == {"req1", "req2"}
LookupTasks == Qualities
TaskIds == FreeTasks \cup LookupTasks

IdleTask == [pc |-> "idle", v |-> "", t |-> 0, q |-> "", image_data |-> None,
             result |-> None, raised |-> FALSE]

\* The record of an event-loop step on key: its operation, the data stored
\* (the image of store_screenshot, the list of store_metadata), the result
\* returned, whether it raised, and what it found: the tier full, the key
\* mapped, the step before it a store_screenshot of the same key.
Event(op, key, data, result, raised) ==
    [n |-> ev.n + 1, op |-> op, key |-> key, data |-> data, metadata |-> <<>>,
     result |-> result, raised |-> raised,
     full |-> CacheFull(memory_cache),
     present |-> key \in DOMAIN memory_cache,
     after_store |-> ev.op = "store" /\ ev.key = key /\ ~ev.raised]

\* A coroutine that returned: a lookup of check_cache_parallel keeps its
\* result for gather, a request's coroutine is gone.
Returned(id, task, result, raised) ==
    IF id \in LookupTasks
    THEN [task EXCEPT !.pc = "done", !.result = result, !.raised = raised]
    ELSE IdleTask

\* get_screenshot up to its first suspension: the memory hit returns at once,
\* the memory miss suspends on run_in_executor.
GetScreenshotStart(id, v, t, q) ==
    LET key == cache_key(v, t, q) IN
    IF key \in DOMAIN memory_cache
    THEN LET tch == touch_access_order(access_order, key)
             res == IF tch.raised THEN None ELSE Some(memory_cache[key])
         IN /\ cache_stats' = Bump(Bump(cache_stats, "hits"), "memory_hits")
            /\ access_order' = tch.ord
            /\ tasks' = [tasks EXCEPT ![id] = Returned(id, tasks[id], res, tch.raised)]
            /\ ev' = Event("memory_hit", key, None, res, tch.raised)
            /\ hist' = Completed([hist EXCEPT !.touched = Touch(@, key)])
            /\ UNCHANGED memory_cache
    ELSE /\ tasks' = [tasks EXCEPT ![id] =
                        [pc |-> "wait", v |-> v, t |-> t, q |-> q,
                         image_data |-> None, result |-> None, raised |-> FALSE]]
         /\ ev' = Event("memory_miss", key, None, None, FALSE)
         /\ UNCHANGED <<memory_cache, access_order, cache_stats, hist>>

\* cli_screenshot / preview / download: a request calls get_screenshot.
GetScreenshot(id, v, t, q) ==
    /\ id \in FreeTasks
    /\ tasks[id].pc = "idle"
    \* the requests are interchangeable: req1 is the first to be used
    /\ id = "req1" \/ tasks["req1"].pc # "idle"
    /\ GetScreenshotStart(id, v, t, q)
    /\ UNCHANGED <<req, streamVars, rateVars, durableVars, dres, metadata_cache, writes, chk>>

\* The executor thread runs gcs_cache.get_cached_screenshot.
ExecutorGetScreenshot(id) ==
    /\ tasks[id].pc = "wait"
    /\ \E F \in SUBSET ReadFailPoints(backend) :
         LET o == get_cached_screenshot(backend, store, now,
                                        tasks[id].v, tasks[id].t, tasks[id].q, F)
         IN /\ store' = o.store
            /\ tasks' = [tasks EXCEPT ![id].pc = "fetched",
                                      ![id].image_data = o.result]
    /\ UNCHANGED <<req, streamVars, rateVars, backend, now, thr, dres, fastVars, writes, chk, ev, hist>>

\* get_screenshot after the durable lookup returned.
ResumeGetScreenshot(id) ==
    /\ tasks[id].pc = "fetched"
    /\ LET key == cache_key(tasks[id].v, tasks[id].t, tasks[id].q)
           image_data == tasks[id].image_data
       IN IF Truthy(image_data)
          THEN LET m == store_in_memory(memory_cache, access_order, key, image_data.val)
               IN /\ memory_cache' = m.mem
                  /\ access_order' = m.ord
                  /\ cache_stats' = IF m.raised THEN cache_stats
                                    ELSE Bump(Bump(cache_stats, "hits"), "gcs_hits")
                  /\ tasks' = [tasks EXCEPT ![id] =
                        Returned(id, tasks[id], IF m.raised THEN None ELSE image_data,
                                 m.raised)]
                  /\ ev' = Event("durable_hit", key, None,
                                 IF m.raised THEN None ELSE image_data, m.raised)
                  /\ hist' = Completed(IF m.raised THEN hist
                                       ELSE HistAfter(hist, key, FALSE,
                                                      image_data.val, m.evicted))
          ELSE /\ cache_stats' = Bump(cache_stats, "misses")
               /\ tasks' = [tasks EXCEPT ![id] = Returned(id, tasks[id], None, FALSE)]
               /\ ev' = Event("miss", key, None, None, FALSE)
               /\ hist' = Completed(hist)
               /\ UNCHANGED <<memory_cache, access_order>>
    /\ UNCHANGED <<req, streamVars, rateVars, durableVars, dres, metadata_cache, writes, chk>>

\* The scheduled background tasks: a bag, for the executor runs them in any
\* order.  A task holds the arguments of its durable write: the bytes of a
\* screenshot or the list of a metadata write.
BagAdd(b, w) ==
    [x \in DOMAIN b \cup {w} |-> IF x \in DOMAIN b THEN b[x] + (IF x = w THEN 1 ELSE 0) ELSE 1]
\* A variant in which a task that ran stays scheduled for ever.
BagRemove_keep(b, w) == b

BagRemove(b, w) ==
    IF b[w] > 1 THEN [b EXCEPT ![w] = @ - 1] ELSE [x \in DOMAIN b \ {w} |-> b[x]]

\* store_screenshot: memory insert, then create_task(_store_gcs_background).
store_screenshot(v, t, q, image_data) ==
    LET key == cache_key(v, t, q)
        m == store_in_memory(memory_cache, access_order, key, image_data)
    IN /\ memory_cache' = m.mem
       /\ access_order' = m.ord
       /\ writes' = IF m.raised THEN writes
                    ELSE BagAdd(writes, [op |-> "screenshot", v |-> v, t |-> t,
                                         q |-> q, data |-> image_data,
                                         metadata |-> <<>>])
       /\ ev' = Event("store", key, Some(image_data), None, m.raised)
       /\ hist' = IF m.raised THEN hist
                  ELSE HistAfter(hist, key, TRUE, image_data, m.evicted)

\* A request calls store_screenshot.
StoreScreenshot(v, t, q, image_data) ==
    /\ store_screenshot(v, t, q, image_data)
    /\ UNCHANGED <<req, streamVars, rateVars, durableVars, dres, metadata_cache, cache_stats, tasks, chk>>

\* _store_gcs_background / _store_metadata_gcs_background: the durable write
\* runs in the executor; cache_screenshot and cache_metadata swallow failures.
BackgroundWriteOf(w) ==
    /\ w \in DOMAIN writes
    /\ \E F \in SUBSET WriteFailPoints(backend) :
         LET o == IF w.op = "screenshot"
                  THEN cache_screenshot(backend, store, now, w.v, w.t, w.q, w.data, F)
                  ELSE cache_metadata(backend, store, now, w.v, w.t, w.metadata, F)
         IN /\ store' = o.store
            /\ writes' = BagRemove(writes, w)
    /\ UNCHANGED <<req, streamVars, rateVars, backend, now, thr, dres, fastVars, tasks, chk, ev, hist>>

BackgroundWrite == \E w \in DOMAIN writes : BackgroundWriteOf(w)

\* A background write during which no backend call fails.
BackgroundWriteSucceeds ==
    \E w \in DOMAIN writes :
       LET o == IF w.op = "screenshot"
                THEN cache_screenshot(backend, store, now, w.v, w.t, w.q, w.data, {})
                ELSE cache_metadata(backend, store, now, w.v, w.t, w.metadata, {})
       IN /\ store' = o.store
          /\ writes' = BagRemove(writes, w)
          /\ UNCHANGED <<req, streamVars, rateVars, backend, now, thr, dres, fastVars,
                         tasks, chk, ev, hist>>

-----------------------------------------------------------------------------
(* FastCache: metadata.  metadata_cache is a dict, which keeps its keys in   *)
(* insertion order: a sequence of [key, val].                               *)

DictKeys(d) == {d[i].key : i \in 1..Len(d)}
DictGet(d, k) == (CHOOSE i \in 1..Len(d) : d[i].key = k)
DictSet(d, k, x) ==
    IF k \in DictKeys(d)
    THEN [i \in 1..Len(d) |-> IF d[i].key = k THEN [key |-> k, val |-> x] ELSE d[i]]
    ELSE Append(d, [key |-> k, val |-> x])

\* get_cached_metadata after a durable hit: insert, then drop the first key
\* of the dict when it holds more than 50.
metadata_insert(d, k, x) ==
    LET d2 == DictSet(d, k, x) IN
    IF Len(d2) > metadata_max THEN Tail(d2) ELSE d2

\* store_metadata: memory insert, then create_task of the background write.
store_metadata(v, t, metadata) ==
    /\ metadata_cache' = DictSet(metadata_cache, metadata_key(v, t), metadata)
    /\ writes' = BagAdd(writes, [op |-> "metadata", v |-> v, t |-> t, q |-> "",
                                 data |-> <<>>, metadata |-> metadata])
    /\ ev' = [Event("store_metadata", metadata_key(v, t), None, None, FALSE)
                 EXCEPT !.metadata = metadata]

\* A request calls store_metadata.
StoreMetadata(v, t, metadata) ==
    /\ store_metadata(v, t, metadata)
    /\ UNCHANGED <<req, streamVars, rateVars, durableVars, dres, memory_cache, access_order, cache_stats,
                   tasks, chk, hist>>

-----------------------------------------------------------------------------
(* check_cache_parallel *)

IdleCheck == [pc |-> "idle", v |-> "", t |-> 0, metadata |-> None,
              images |-> [q \in Qualities |-> None], result |-> None,
              raised |-> FALSE, n |-> 0]

\* A variant of the decision that is content with one image.
CompleteHit_any(images) == \E q \in Qualities : images[q].some

\* "if all(img is not None for img in cached_images)"
CompleteHit(images) == \A q \in Qualities : images[q].some

\* "if cached_metadata:" then one get_screenshot coroutine per quality of
\* qualities = ['ultra', 'high', 'medium', 'low'], handed to asyncio.gather.
CheckAfterMetadata(c, cached_metadata) ==
    IF Truthy(cached_metadata)
    THEN /\ chk' = [c EXCEPT !.pc = "lookups", !.metadata = cached_metadata]
         /\ tasks' = [id \in TaskIds |->
                        IF id \in LookupTasks
                        THEN [IdleTask EXCEPT !.pc = "ready", !.v = c.v, !.t = c.t,
                                              !.q = id]
                        ELSE tasks[id]]
    ELSE /\ chk' = [c EXCEPT !.pc = "done", !.metadata = cached_metadata,
                             !.result = None]
         /\ UNCHANGED tasks

\* check_cache_parallel up to the first suspension of get_cached_metadata.
check_cache_parallel(v, t) ==
    LET key == metadata_key(v, t)
        c == [IdleCheck EXCEPT !.v = v, !.t = t, !.n = chk.n + 1]
    IN IF key \in DictKeys(metadata_cache)
       THEN CheckAfterMetadata(c, Some(metadata_cache[DictGet(metadata_cache, key)].val))
       ELSE /\ chk' = [c EXCEPT !.pc = "meta_wait"]
            /\ UNCHANGED tasks

\* A request calls check_cache_parallel.
CheckStart(v, t) ==
    /\ chk.pc \in {"idle", "done"}
    /\ check_cache_parallel(v, t)
    /\ UNCHANGED <<req, streamVars, rateVars, durableVars, dres, fastVars, writes, ev, hist>>

\* The executor thread runs gcs_cache.get_cached_metadata.
ExecutorGetMetadata ==
    /\ chk.pc = "meta_wait"
    /\ \E F \in SUBSET ReadFailPoints(backend) :
         LET o == get_cached_metadata(backend, store, now, chk.v, chk.t, F)
         IN /\ store' = o.store
            /\ chk' = [chk EXCEPT !.pc = "meta_fetched", !.metadata = o.result]
    /\ UNCHANGED <<req, streamVars, rateVars, backend, now, thr, dres, fastVars, tasks, writes, ev, hist>>

\* get_cached_metadata after the durable lookup, then the rest of
\* check_cache_parallel up to gather.
CheckMetaResume ==
    /\ chk.pc = "meta_fetched"
    /\ metadata_cache' =
         IF Truthy(chk.metadata)
         THEN metadata_insert(metadata_cache, metadata_key(chk.v, chk.t), chk.metadata.val)
         ELSE metadata_cache
    /\ CheckAfterMetadata(chk, chk.metadata)
    /\ UNCHANGED <<req, streamVars, rateVars, durableVars, dres, memory_cache, access_order, cache_stats,
                   writes, ev, hist>>

\* The event loop starts the coroutines of gather in the order of the list.
LookupStart(q) ==
    /\ chk.pc = "lookups"
    /\ tasks[q].pc = "ready"
    /\ \A i, j \in 1..Len(QualityOrder) :
         (i < j /\ QualityOrder[j] = q) => tasks[QualityOrder[i]].pc # "ready"
    /\ GetScreenshotStart(q, tasks[q].v, tasks[q].t, q)
    /\ UNCHANGED <<req, streamVars, rateVars, durableVars, dres, metadata_cache, writes, chk>>

\* A variant of the decision that is made as soon as one lookup returned.
CheckDecide_first ==
    /\ chk.pc = "lookups"
    /\ \E q \in Qualities : tasks[q].pc = "done"
    /\ LET images == [q \in Qualities |-> tasks[q].result]
           raised == \E q \in Qualities : tasks[q].raised
       IN chk' = [chk EXCEPT !.pc = "done",
                             !.images = images,
                             !.raised = raised,
                             !.result = IF ~raised /\ CompleteHit(images)
                                        THEN chk.metadata ELSE None]
    /\ tasks' = [id \in TaskIds |-> IF id \in LookupTasks THEN IdleTask ELSE tasks[id]]
    /\ UNCHANGED <<req, streamVars, rateVars, durableVars, dres, fastVars, writes, ev, hist>>

\* gather returns when every lookup has returned (an exception of a lookup
\* is raised by gather); then the decision.
CheckDecide ==
    /\ chk.pc = "lookups"
    /\ \A q \in Qualities : tasks[q].pc = "done"
    /\ LET images == [q \in Qualities |-> tasks[q].result]
           raised == \E q \in Qualities : tasks[q].raised
       IN chk' = [chk EXCEPT !.pc = "done",
                             !.images = images,
                             !.raised = raised,
                             !.result = IF ~raised /\ CompleteHit(images)
                                        THEN chk.metadata ELSE None]
    /\ tasks' = [id \in TaskIds |-> IF id \in LookupTasks THEN IdleTask ELSE tasks[id]]
    /\ UNCHANGED <<req, streamVars, rateVars, durableVars, dres, fastVars, writes, ev, hist>>

-----------------------------------------------------------------------------
(* FastCache.get_cached_metadata called on its own; chk holds the call.      *)

\* get_cached_metadata up to its first suspension: the memory hit returns at
\* once, the memory miss suspends on run_in_executor.
GetCachedMetadataStart(v, t) ==
    /\ chk.pc \in {"idle", "done"}
    /\ LET key == metadata_key(v, t)
           c == [IdleCheck EXCEPT !.v = v, !.t = t, !.n = chk.n + 1]
       IN chk' = IF key \in DictKeys(metadata_cache)
                 THEN [c EXCEPT !.pc = "done",
                                !.result = Some(metadata_cache[DictGet(metadata_cache, key)].val)]
                 ELSE [c EXCEPT !.pc = "gm_wait"]
    /\ UNCHANGED <<req, streamVars, rateVars, durableVars, dres, fastVars, tasks, writes, ev, hist>>

\* The executor thread runs gcs_cache.get_cached_metadata.
GetCachedMetadataExecutor ==
    /\ chk.pc = "gm_wait"
    /\ \E F \in SUBSET ReadFailPoints(backend) :
         LET o == get_cached_metadata(backend, store, now, chk.v, chk.t, F)
         IN /\ store' = o.store
            /\ chk' = [chk EXCEPT !.pc = "gm_fetched", !.metadata = o.result,
                                  !.raised = o.raised]
    /\ UNCHANGED <<req, streamVars, rateVars, backend, now, thr, dres, fastVars, tasks, writes, ev, hist>>

\* get_cached_metadata after the durable lookup: "if metadata:" insert, and
\* drop the first key when the dict holds more than 50; return metadata.
GetCachedMetadataResume ==
    /\ chk.pc = "gm_fetched"
    /\ metadata_cache' =
         IF ~chk.raised /\ Truthy(chk.metadata)
         THEN metadata_insert(metadata_cache, metadata_key(chk.v, chk.t), chk.metadata.val)
         ELSE metadata_cache
    /\ chk' = [chk EXCEPT !.pc = "done", !.result = chk.metadata]
    /\ UNCHANGED <<req, streamVars, rateVars, durableVars, dres, memory_cache, access_order, cache_stats,
                   tasks, writes, ev, hist>>

-----------------------------------------------------------------------------
(* StreamCache.  The cache is a dict, which keeps its keys in insertion     *)
(* order: a sequence of [key, val] with val = [streams, timestamp].  A      *)
(* streams dict maps a quality key to the url of its stream.                *)

\* The video ids extract_video_id can return: more than the cache can hold.
StreamVideos == 1..(max_items + 1)

\* What the resolver returns: no stream at all, or the stream of one quality.
StreamMaps == {EmptyMap} \cup {[q \in {QualityOrder[1]} |-> u] : u \in {1, 2}}

\* Python truthiness of a dict: {} is falsy.
TruthyDict(o) == o.some /\ o.val # EmptyMap

\* A variant of the test that keeps an entry for one more instant.
StreamFresh_inclusive(clock, timestamp) == clock - timestamp <= stream_cache_duration

\* "datetime.now() - cached_data['timestamp'] < self.cache_duration"
StreamFresh(clock, timestamp) == clock - timestamp < stream_cache_duration

\* "del self.cache[key]"
DictDel(d, k) == SelectSeq(d, LAMBDA e : e.key # k)

\* StreamCache.get_streams: the cache after the call and what is returned.
get_streams(c, clock, video_id) ==
    IF video_id \in DictKeys(c)
    THEN LET cached_data == c[DictGet(c, video_id)].val IN
         IF StreamFresh(clock, cached_data.timestamp)
         THEN [cache |-> c, result |-> Some(cached_data.streams)]
         ELSE [cache |-> DictDel(c, video_id), result |-> None]
    ELSE [cache |-> c, result |-> None]

\* A variant of the choice that takes the entry inserted last.
oldest_key_last(c) == c[Len(c)].key

\* A variant of the choice that takes an entry of the largest timestamp.
oldest_key_newest(c) ==
    LET i == CHOOSE i \in 1..Len(c) :
                 \A j \in 1..Len(c) : c[i].val.timestamp >= c[j].val.timestamp
    IN c[i].key

\* "min(self.cache.keys(), key=lambda k: self.cache[k]['timestamp'])": the
\* first key, in the order of the dict, of the smallest timestamp.
oldest_key(c) ==
    LET i == CHOOSE i \in 1..Len(c) :
                 /\ \A j \in 1..Len(c) : c[i].val.timestamp <= c[j].val.timestamp
                 /\ \A j \in 1..(i - 1) : c[j].val.timestamp > c[i].val.timestamp
    IN c[i].key

\* A variant of the insert that stores nothing.
cache_streams_skip(c, clock, video_id, streams) == c

\* StreamCache.cache_streams: the cache after the call.
cache_streams(c, clock, video_id, streams) ==
    LET c2 == IF Len(c) >= max_items THEN DictDel(c, oldest_key(c)) ELSE c
    IN DictSet(c2, video_id, [streams |-> streams, timestamp |-> clock])

\* The record of a call on the stream cache: what it returned, whether it
\* raised, whether it ran the resolver and what the resolver returned, the
\* clock when it started and when it returned, the timestamp of the entry
\* the cache held for the video id when it started, how many entries the
\* cache held then and the smallest timestamp among them.
StreamCalled(op, video_id, result, raised, resolved, fresh, at, done) ==
    [n |-> sres.n + 1, op |-> op, video_id |-> video_id, result |-> result,
     raised |-> raised, resolved |-> resolved, fresh |-> fresh,
     at |-> at, done |-> done,
     held |-> IF video_id \in DictKeys(stream_cache)
              THEN Some(stream_cache[DictGet(stream_cache, video_id)].val.timestamp)
              ELSE None,
     size |-> Len(stream_cache),
     oldest |-> IF stream_cache = <<>> THEN None
                ELSE Some(stream_cache[DictGet(stream_cache,
                                               oldest_key(stream_cache))].val.timestamp)]

\* A direct call of stream_cache.get_streams.
GetStreams(video_id) ==
    LET o == get_streams(stream_cache, stream_now, video_id) IN
    /\ stream_cache' = o.cache
    /\ sres' = StreamCalled("get_streams", video_id, o.result, FALSE, FALSE, None,
                            stream_now, stream_now)
    /\ UNCHANGED <<req, rateVars, durableVars, dres, fastAll, stream_now>>

\* A direct call of stream_cache.cache_streams.
CacheStreams(video_id, streams) ==
    /\ stream_cache' = cache_streams(stream_cache, stream_now, video_id, streams)
    /\ sres' = StreamCalled("cache_streams", video_id, None, FALSE, FALSE, None,
                            stream_now, stream_now)
    /\ UNCHANGED <<req, rateVars, durableVars, dres, fastAll, stream_now>>

\* get_multiple_quality_streams_cached on a url of the video video_id, or of
\* no video (video_id = 0: extract_video_id returns None).  It runs on the
\* event loop without an await.  The resolver get_multiple_quality_streams
\* runs yt-dlp, which takes the time took and raises (fresh = None) or
\* returns the streams fresh.val.
get_multiple_quality_streams_cached(video_id, fresh, took) ==
    IF video_id = 0
    THEN /\ sres' = StreamCalled("get_multiple_quality_streams_cached", video_id,
                                 None, TRUE, FALSE, None, stream_now, stream_now)
         /\ UNCHANGED <<stream_cache, stream_now>>
    ELSE LET o == get_streams(stream_cache, stream_now, video_id) IN
         IF TruthyDict(o.result)
         THEN /\ stream_cache' = o.cache
              /\ sres' = StreamCalled("get_multiple_quality_streams_cached",
                                      video_id, o.result, FALSE, FALSE, None,
                                      stream_now, stream_now)
              /\ UNCHANGED stream_now
         ELSE /\ stream_now + took <= MaxStreamNow
              /\ stream_now' = stream_now + took
              /\ stream_cache' =
                    IF fresh.some /\ fresh.val # EmptyMap
                    THEN cache_streams(o.cache, stream_now + took, video_id, fresh.val)
                    ELSE o.cache
              /\ sres' = StreamCalled("get_multiple_quality_streams_cached",
                                      video_id, fresh, ~fresh.some, TRUE, fresh,
                                      stream_now, stream_now + took)

\* A call of get_multiple_quality_streams_cached on its own.
GetMultipleQualityStreamsCached(video_id, fresh, took) ==
    /\ get_multiple_quality_streams_cached(video_id, fresh, took)
    /\ UNCHANGED <<req, rateVars, durableVars, dres, fastAll>>

\* Time passes for the stream cache.
StreamTick ==
    /\ stream_now < MaxStreamNow
    /\ stream_now' = stream_now + 1
    /\ UNCHANGED <<req, rateVars, durableVars, dres, fastAll, stream_cache, sres>>

\* app.py: stream_cache = StreamCache()
InitStreamCache ==
    /\ stream_cache = <<>>
    /\ stream_now = 0
    /\ sres = [n |-> 0, op |-> "init", video_id |-> 0, result |-> None,
               raised |-> FALSE, resolved |-> FALSE, fresh |-> None,
               at |-> 0, done |-> 0, held |-> None, size |-> 0, oldest |-> None]

-----------------------------------------------------------------------------
(* Initial states *)

(* The request handlers create_screenshots and cli_screenshot.  req holds   *)
(* the one request being handled: where its coroutine stands (pc), its       *)
(* arguments, what the resolver and the extractions gave, the background     *)
(* cache tasks it created and its response.                                  *)

\* The urls of the requests: one of a video, one extract_video_id rejects.
Urls == {"https://youtu.be/abc12345678", "no video"}

extract_video_id(url) ==
    IF url = "https://youtu.be/abc12345678" THEN Some("abc12345678") ELSE None

\* The stream cache numbers the video ids: the video of the url is 1, and 0
\* stands for no video id.
StreamVideoOf(url) == IF extract_video_id(url).some THEN 1 ELSE 0

\* What the resolver gives a request: no stream, or the streams of the first
\* two qualities.
RequestMaps == {EmptyMap,
                [q \in {QualityOrder[1], QualityOrder[2]} |-> 1]}

\* How one extraction ends: ffmpeg wrote the file, ffmpeg failed
\* (CalledProcessError: generate_screenshot returns None), or another
\* exception left generate_screenshot.
ExtractOutcomes == {"ok", "failed", "raised"}

\* The bytes ffmpeg writes into the file of a frame.
Frame == <<1>>

NoResponse == [status |-> 0, raised |-> 0, cached |-> FALSE,
               screenshots |-> <<>>, image |-> None]

IdleRequest == [n |-> 0, op |-> "idle", pc |-> "idle", url |-> "", v |-> "",
                t |-> 0, q |-> "", streams |-> EmptyMap,
                results |-> [q \in Qualities |-> ""],
                cache_tasks |-> {}, response |-> NoResponse]

\* A new request takes the place of the last one.
NewRequest(op, url, t, q) ==
    [IdleRequest EXCEPT !.n = req.n + 1, !.op = op, !.url = url, !.t = t, !.q = q,
                        !.v = IF extract_video_id(url).some
                              THEN extract_video_id(url).val ELSE ""]

\* "except Exception as e: raise HTTPException(status_code=500, ...)": the
\* status of the response when an exception of the status raised (0: not an
\* HTTPException) is raised inside the try block.
except_Exception(raised) == 500

\* The handler ends with an exception raised inside its try block.
Failed(r, raised) ==
    [r EXCEPT !.pc = "done",
              !.response = [NoResponse EXCEPT !.status = except_Exception(raised),
                                              !.raised = raised]]

\* The handler ends with an HTTPException raised outside a try block.
Rejected(r, raised) ==
    [r EXCEPT !.pc = "done",
              !.response = [NoResponse EXCEPT !.status = raised, !.raised = raised]]

\* The places where a handler is inside a call it makes without await:
\* validate_timestamp, get_multiple_quality_streams_cached, generate_screenshot
\* of cli_screenshot.
SyncCalls == {"validating", "resolving", "cli_extracting"}

\* A variant in which the durable lookup of get_screenshot runs on the event
\* loop.
LoopHeld_lookup ==
    \/ req.pc \in SyncCalls
    \/ req.pc = "checking" /\ chk.pc = "done"
    \/ req.pc = "cli_lookup" /\ tasks["req1"].pc = "idle"
    \/ \E id \in TaskIds : tasks[id].pc = "wait"

\* The event loop is held by the handler: inside a synchronous call, or
\* between the return of an awaited coroutine and the handler's next lines,
\* which run in the same step of the loop.
LoopHeld ==
    \/ req.pc \in SyncCalls
    \/ req.pc = "checking" /\ chk.pc = "done"
    \/ req.pc = "cli_lookup" /\ tasks["req1"].pc = "idle"

\* create_screenshots up to validate_timestamp: the invalid url is rejected
\* before the try block.
CreateScreenshots(url, t) ==
    /\ req.pc \in {"idle", "done"}
    /\ req.cache_tasks = {}
    /\ chk.pc \in {"idle", "done"}
    /\ LET r == NewRequest("create_screenshots", url, t, "") IN
       req' = IF ~extract_video_id(url).some
              THEN Rejected(r, 400)
              ELSE [r EXCEPT !.pc = "validating"]
    /\ UNCHANGED <<streamVars, rateVars, durableVars, dres, fastAll>>

\* validate_timestamp returns; "if not validation['valid']" raises 400 inside
\* the try block, else check_cache_parallel runs up to its first suspension.
ValidateTimestampReturns(valid) ==
    /\ req.pc = "validating"
    /\ req.op = "create_screenshots"
    /\ IF valid
       THEN /\ check_cache_parallel(req.v, req.t)
            /\ req' = [req EXCEPT !.pc = "checking"]
       ELSE /\ req' = Failed(req, 400)
            /\ UNCHANGED <<chk, tasks>>
    /\ UNCHANGED <<streamVars, rateVars, durableVars, dres, fastVars, writes, ev, hist>>

\* check_cache_parallel returned: "if cached_screenshots:" answers from the
\* cache, else get_multiple_quality_streams_cached is called.
AfterCheck ==
    /\ req.pc = "checking"
    /\ chk.pc = "done"
    /\ req' = IF chk.raised THEN Failed(req, 0)
              ELSE IF Truthy(chk.result)
              THEN [req EXCEPT !.pc = "done",
                               !.response = [NoResponse EXCEPT
                                                !.status = 200,
                                                !.cached = TRUE,
                                                !.screenshots = chk.result.val]]
              ELSE [req EXCEPT !.pc = "resolving"]
    /\ UNCHANGED <<streamVars, rateVars, durableVars, dres, fastAll>>

\* get_multiple_quality_streams_cached returns to the handler.
\* create_screenshots: "if not streams" raises 404, else
\* generate_screenshots_parallel hands one extraction per stream to the pool.
\* cli_screenshot: "if quality not in streams" raises 400, else
\* generate_screenshot is called.
ResolverReturns(fresh, took) ==
    /\ req.pc = "resolving"
    /\ get_multiple_quality_streams_cached(StreamVideoOf(req.url), fresh, took)
    /\ LET streams == sres'.result IN
       req' = IF sres'.raised THEN Failed(req, 0)
              ELSE IF req.op = "create_screenshots"
              THEN IF ~TruthyDict(streams) THEN Failed(req, 404)
                   ELSE [req EXCEPT !.pc = "extracting", !.streams = streams.val]
              ELSE IF req.q \notin DOMAIN streams.val THEN Failed(req, 400)
                   ELSE [req EXCEPT !.pc = "cli_extracting", !.streams = streams.val]
    /\ UNCHANGED <<rateVars, durableVars, dres, fastAll>>

\* A thread of the pool runs generate_single_screenshot of one stream.
ExtractFrame(q, outcome) ==
    /\ req.pc = "extracting"
    /\ q \in DOMAIN req.streams
    /\ req.results[q] = ""
    /\ req' = [req EXCEPT !.results[q] = outcome]
    /\ UNCHANGED <<streamVars, rateVars, durableVars, dres, fastAll>>

\* A variant of the filter in which one failure leaves no screenshot.
Screenshots_strict(streams, results) ==
    IF \E q \in DOMAIN streams : results[q] # "ok" THEN <<>>
    ELSE SelectSeq(QualityOrder, LAMBDA q : q \in DOMAIN streams)

\* "screenshots = [r for r in results if r and not isinstance(r, Exception)]",
\* in the order of the streams.
Screenshots(streams, results) ==
    SelectSeq(QualityOrder, LAMBDA q : q \in DOMAIN streams /\ results[q] = "ok")

\* gather returned: "if not screenshots" raises 500, else one
\* cache_screenshot_background task is created per screenshot, store_metadata
\* runs and the response is returned.
GenerateReturns ==
    /\ req.pc = "extracting"
    /\ \A q \in DOMAIN req.streams : req.results[q] # ""
    /\ LET screenshots == Screenshots(req.streams, req.results) IN
       IF screenshots = <<>>
       THEN /\ req' = Failed(req, 500)
            /\ UNCHANGED <<metadata_cache, writes, ev>>
       ELSE /\ store_metadata(req.v, req.t, screenshots)
            /\ req' = [req EXCEPT !.pc = "done",
                                  !.cache_tasks = Range(screenshots),
                                  !.response = [NoResponse EXCEPT
                                                   !.status = 200,
                                                   !.screenshots = screenshots]]
    /\ UNCHANGED <<streamVars, rateVars, durableVars, dres, memory_cache, access_order,
                   cache_stats, tasks, chk, hist>>

\* cache_screenshot_background: the task reads the file and calls
\* store_screenshot.
CacheScreenshotBackground(q) ==
    /\ q \in req.cache_tasks
    /\ store_screenshot(req.v, req.t, q, Frame)
    /\ req' = [req EXCEPT !.cache_tasks = @ \ {q}]
    /\ UNCHANGED <<streamVars, rateVars, durableVars, dres, metadata_cache, cache_stats,
                   tasks, chk>>

\* cli_screenshot up to the first suspension of get_screenshot: the invalid
\* url raises 400 inside the try block.
CliScreenshot(url, t, q) ==
    /\ req.pc \in {"idle", "done"}
    /\ req.cache_tasks = {}
    /\ tasks["req1"].pc = "idle"
    /\ LET r == NewRequest("cli_screenshot", url, t, q) IN
       IF ~extract_video_id(url).some
       THEN /\ req' = Failed(r, 400)
            /\ UNCHANGED <<fastVars, tasks, ev, hist>>
       ELSE /\ GetScreenshotStart("req1", r.v, t, q)
            /\ req' = [r EXCEPT !.pc = "cli_lookup"]
            /\ UNCHANGED metadata_cache
    /\ UNCHANGED <<streamVars, rateVars, durableVars, dres, writes, chk>>

\* get_screenshot returned to cli_screenshot: "if cached_image:" answers from
\* the cache, else get_multiple_quality_streams_cached is called.
CliAfterLookup ==
    /\ req.pc = "cli_lookup"
    /\ tasks["req1"].pc = "idle"
    /\ req' = IF ev.raised THEN Failed(req, 0)
              ELSE IF Truthy(ev.result)
              THEN [req EXCEPT !.pc = "done",
                               !.response = [NoResponse EXCEPT
                                                !.status = 200,
                                                !.cached = TRUE,
                                                !.image = ev.result]]
              ELSE [req EXCEPT !.pc = "resolving"]
    /\ UNCHANGED <<streamVars, rateVars, durableVars, dres, fastAll>>

\* generate_screenshot returns to cli_screenshot: "if not screenshot" raises
\* 500, else the file is read, store_screenshot runs and the image is
\* returned.
CliExtractReturns(outcome) ==
    /\ req.pc = "cli_extracting"
    /\ IF outcome = "ok"
       THEN /\ store_screenshot(req.v, req.t, req.q, Frame)
            /\ req' = IF ev'.raised THEN Failed(req, 0)
                      ELSE [req EXCEPT !.pc = "done",
                                       !.response = [NoResponse EXCEPT
                                                        !.status = 200,
                                                        !.image = Some(Frame)]]
       ELSE /\ req' = Failed(req, IF outcome = "failed" THEN 500 ELSE 0)
            /\ UNCHANGED <<memory_cache, access_order, writes, ev, hist>>
    /\ UNCHANGED <<streamVars, rateVars, durableVars, dres, metadata_cache, cache_stats,
                   tasks, chk>>

\* preview_screenshot / download_screenshot: the handler of another request
\* calls get_screenshot.
PreviewScreenshot(v, t, q) ==
    /\ tasks["req2"].pc = "idle"
    /\ GetScreenshotStart("req2", v, t, q)
    /\ UNCHANGED <<req, streamVars, rateVars, durableVars, dres, metadata_cache, writes, chk>>

InitRequest == req = IdleRequest

-----------------------------------------------------------------------------
(* The rate limiter.  request_counts is a defaultdict(deque): a client that  *)
(* was never seen has the empty deque.                                       *)

Clients == {"10.0.0.1", "10.0.0.2"}

\* A variant of the test that also drops a time exactly one window old.
Stale_inclusive(timestamp, minute_ago) == timestamp <= minute_ago

\* "request_counts[client_ip][0] < minute_ago"
Stale(timestamp, minute_ago) == timestamp < minute_ago

\* "while request_counts[client_ip] and request_counts[client_ip][0] <
\* minute_ago: request_counts[client_ip].popleft()"
RECURSIVE DropStale(_, _)
DropStale(queue, minute_ago) ==
    IF queue # <<>> /\ Stale(Head(queue), minute_ago)
    THEN DropStale(Tail(queue), minute_ago)
    ELSE queue

\* rate_limit_check: the queues after the call and what it returns.
rate_limit_check(counts, clock, client_ip) ==
    LET minute_ago == clock - RATE_WINDOW
        queue == DropStale(counts[client_ip], minute_ago)
    IN IF Len(queue) >= RATE_LIMIT
       THEN [counts |-> [counts EXCEPT ![client_ip] = queue], result |-> FALSE]
       ELSE [counts |-> [counts EXCEPT ![client_ip] = Append(queue, clock)],
             result |-> TRUE]

\* rate_limit_middleware on a request of client_ip: a path under /api/ goes
\* through rate_limit_check and is answered 429 when it returns False; any
\* other path is handed on.  rres keeps the request, its answer (0: handed
\* to the route) and the times of all the requests admitted so far.
RateLimitMiddleware(client_ip, api) ==
    /\ LET o == IF api THEN rate_limit_check(request_counts, rate_now, client_ip)
                ELSE [counts |-> request_counts, result |-> TRUE]
       IN /\ request_counts' = o.counts
          /\ rres' = [n |-> rres.n + 1, client_ip |-> client_ip, api |-> api,
                      admitted |-> o.result,
                      status |-> IF o.result THEN 0 ELSE 429,
                      at |-> rate_now,
                      history |-> IF api /\ o.result
                                  THEN [rres.history EXCEPT ![client_ip] =
                                           Append(@, rate_now)]
                                  ELSE rres.history]
    /\ UNCHANGED <<rate_now, req, streamVars, durableVars, dres, fastAll>>

\* Time passes for the rate limiter.
RateTick ==
    /\ rate_now < MaxRateNow
    /\ rate_now' = rate_now + 1
    /\ UNCHANGED <<request_counts, rres, req, streamVars, durableVars, dres, fastAll>>

\* app.py: request_counts = defaultdict(deque)
InitRateLimit ==
    /\ request_counts = [c \in Clients |-> <<>>]
    /\ rate_now = 0
    /\ rres = [n |-> 0, client_ip |-> "", api |-> FALSE, admitted |-> TRUE,
               status |-> 0, at |-> 0, history |-> [c \in Clients |-> <<>>]]

-----------------------------------------------------------------------------
InitFastCache ==
    /\ memory_cache = EmptyMap
    /\ access_order = <<>>
    /\ metadata_cache = <<>>
    /\ cache_stats = [hits |-> 0, misses |-> 0, memory_hits |-> 0, gcs_hits |-> 0]
    /\ tasks = [id \in TaskIds |-> IdleTask]
    /\ writes = EmptyMap
    /\ chk = IdleCheck
    /\ ev = [n |-> 0, op |-> "init", key |-> "", data |-> None, metadata |-> <<>>,
             result |-> None,
             raised |-> FALSE, full |-> FALSE, present |-> FALSE,
             after_store |-> FALSE]
    /\ hist = [completed |-> 0, touched |-> <<>>,
               stored |-> [k \in CacheKeys |-> None]]

InitDres ==
    /\ dres = [n |-> 0, op |-> "init", name |-> "", arg |-> None,
               result |-> None, raised |-> FALSE, fails |-> {}, at |-> 0,
               was_expired |-> FALSE, follows |-> NoWrite]
    /\ thr = [get |-> IdleGetter, purge |-> IdlePurge, put |-> IdleWriter]

\* The durable store outlives the process: it holds the blobs of an earlier
\* run (a lookup still misses them when a backend call fails).
AllScreenshotNames(b) ==
    {screenshot_name(b, v, t, q) : v \in Videos, t \in Timestamps, q \in Qualities}

EarlierBlobs(b, content, time) ==
    {[n \in names |-> [content |-> content, time |-> time]] :
        names \in {AllScreenshotNames(b)}}

\* app.py: gcs_cache = GCSCache(...); fast_cache = FastCache(gcs_cache)
InitLRU ==
    /\ backend = "gcs"
    /\ now = 0
    /\ store \in EarlierBlobs("gcs", <<1>>, 0)
    /\ InitDres
    /\ InitFastCache
    /\ InitStreamCache
    /\ InitRequest
    /\ InitRateLimit

\* Requests on the qualities Q with the payloads B; no request starts after
\* N event-loop steps.
NextFast(Q, B, N) ==
    \/ \E id \in FreeTasks, v \in Videos, t \in Timestamps, q \in Q :
         ev.n < N /\ GetScreenshot(id, v, t, q)
    \/ \E id \in FreeTasks : ExecutorGetScreenshot(id)
    \/ \E id \in FreeTasks : ResumeGetScreenshot(id)
    \/ \E v \in Videos, t \in Timestamps, q \in Q, d \in B :
         ev.n < N /\ StoreScreenshot(v, t, q, d)
    \/ BackgroundWrite

\* The memory tier's structure: every key, one payload.
NextLRU == NextFast(Qualities, {<<1>>}, MaxEvents)

SpecLRU == InitLRU /\ [][NextLRU]_vars

\* The same, one step longer.
NextLRUDeep == NextFast(Qualities, {<<1>>}, MaxEvents + 1)

SpecLRUDeep == InitLRU /\ [][NextLRUDeep]_vars

\* The values the tiers return: two keys, every payload.
NextRAW == NextFast({QualityOrder[1], QualityOrder[2]}, Blobs, MaxEvents - 1)

SpecRAW == InitLRU /\ [][NextRAW]_vars

\* The same, one step longer.
NextRAWDeep == NextFast({QualityOrder[1], QualityOrder[2]}, Blobs, MaxEvents)

SpecRAWDeep == InitLRU /\ [][NextRAWDeep]_vars

\* The durable fallback: three keys, so that a key leaves the memory tier,
\* and the payloads store_screenshot accepts, the empty one included.
NextFallback ==
    NextFast({QualityOrder[1], QualityOrder[2], QualityOrder[3]}, {<<>>, Frame},
             MaxEvents)

SpecFallback == InitLRU /\ [][NextFallback]_vars

\* Write-back: store_screenshot and store_metadata beside the lookups and
\* the background writes, which succeed or fail.
WriteBackLists == {<<QualityOrder[1]>>, <<QualityOrder[1], QualityOrder[2]>>}

NextWriteBack ==
    \/ NextFast({QualityOrder[1], QualityOrder[2]}, Blobs, MaxEvents - 2)
    \/ \E v \in Videos, t \in Timestamps, m \in WriteBackLists :
         ev.n < MaxEvents - 2 /\ StoreMetadata(v, t, m)

SpecWriteBack == InitLRU /\ [][NextWriteBack]_vars

\* The tasks store_screenshot and store_metadata can schedule here.
WriteTasks ==
    [op : {"screenshot"}, v : Videos, t : Timestamps,
     q : {QualityOrder[1], QualityOrder[2]}, data : Blobs, metadata : {<<>>}]
        \cup [op : {"metadata"}, v : Videos, t : Timestamps, q : {""},
              data : {<<>>}, metadata : WriteBackLists]

\* The event loop runs every task it was given and the executor every job
\* that was submitted to it: a scheduled background write is run.
SpecWriteBackFair ==
    SpecWriteBack /\ \A w \in WriteTasks : WF_vars(BackgroundWriteOf(w))

\* The metadata mapping alone: store_metadata and get_cached_metadata on
\* more (video, timestamp) pairs than the mapping is meant to hold, over
\* what an earlier run left in the durable store: nothing, or a list for
\* every pair.
MetaTimestamps == 1..(metadata_max + 1)

EarlierLists(m) ==
    [n \in {metadata_name("gcs", v, t) : v \in Videos, t \in MetaTimestamps} |->
        [content |-> json_dumps(m), time |-> 0]]

InitMetadata ==
    /\ backend = "gcs"
    /\ now = 0
    /\ store \in {EmptyMap, EarlierLists(<<QualityOrder[1]>>)}
    /\ InitDres
    /\ InitFastCache
    /\ InitStreamCache
    /\ InitRequest
    /\ InitRateLimit

NextMetadata ==
    \/ \E v \in Videos, t \in MetaTimestamps :
         ev.n < metadata_max + 1 /\ StoreMetadata(v, t, <<QualityOrder[2]>>)
    \/ \E v \in Videos, t \in MetaTimestamps :
         chk.n < MaxChecks - 1 /\ GetCachedMetadataStart(v, t)
    \/ GetCachedMetadataExecutor
    \/ GetCachedMetadataResume
    \/ BackgroundWrite

SpecMetadata == InitMetadata /\ [][NextMetadata]_vars

\* The stream cache alone: get_streams and cache_streams called directly
\* while time passes.
DirectMaps == {EmptyMap, [q \in {QualityOrder[1]} |-> 1]}

NextStreams ==
    \/ \E video_id \in StreamVideos :
         sres.n < MaxStreamCalls /\ GetStreams(video_id)
    \/ \E video_id \in StreamVideos, streams \in DirectMaps :
         sres.n < MaxStreamCalls /\ CacheStreams(video_id, streams)
    \/ StreamTick

SpecStreams == InitLRU /\ [][NextStreams]_vars

\* The stream cache as the requests use it: through
\* get_multiple_quality_streams_cached only, on urls with and without a
\* video id, the resolver failing, finding nothing or finding streams.
NextResolve ==
    \/ \E video_id \in {0} \cup StreamVideos,
          fresh \in {None} \cup {Some(m) : m \in StreamMaps}, took \in {0, 1} :
         /\ sres.n < MaxStreamCalls - 1
         /\ GetMultipleQualityStreamsCached(video_id, fresh, took)
    \/ StreamTick

SpecResolve == InitLRU /\ [][NextResolve]_vars

\* The adapters alone, LocalCache or GCSCache, called directly while time
\* passes; the requests of one quality, with the payloads of Blobs and the
\* lists a run can store.
InitDurable ==
    /\ backend \in {"gcs", "local"}
    /\ now = 0
    /\ store = EmptyMap
    /\ InitDres
    /\ InitFastCache
    /\ InitStreamCache
    /\ InitRequest
    /\ InitRateLimit

DurableQualities == {QualityOrder[1]}
DurableLists == {<<>>, <<QualityOrder[1]>>}

NextDurable ==
    \/ \E v \in Videos, t \in Timestamps, q \in DurableQualities,
          F \in SUBSET ReadFailPoints(backend) :
         /\ dres.n < MaxCalls
         /\ DirectGetScreenshot(v, t, q, F)
    \/ \E v \in Videos, t \in Timestamps, F \in SUBSET ReadFailPoints(backend) :
         /\ dres.n < MaxCalls
         /\ DirectGetMetadata(v, t, F)
    \/ \E v \in Videos, t \in Timestamps, q \in DurableQualities, d \in Blobs,
          F \in SUBSET WriteFailPoints(backend) :
         /\ dres.n < MaxCalls
         /\ DirectCacheScreenshot(v, t, q, d, F)
    \/ \E v \in Videos, t \in Timestamps, m \in DurableLists,
          F \in SUBSET WriteFailPoints(backend) :
         /\ dres.n < MaxCalls
         /\ DirectCacheMetadata(v, t, m, F)
    \/ \E d \in TickSteps : Tick(d)

SpecDurable == InitDurable /\ [][NextDurable]_vars

\* The adapters with the purge: writes of one blob and one list, the purge,
\* and the getters, while time passes.
NextCleanup ==
    \/ \E v \in Videos, t \in Timestamps, q \in DurableQualities,
          F \in SUBSET WriteFailPoints(backend) :
         /\ dres.n < MaxCalls
         /\ DirectCacheScreenshot(v, t, q, <<1>>, F)
    \/ \E v \in Videos, t \in Timestamps, F \in SUBSET WriteFailPoints(backend) :
         /\ dres.n < MaxCalls
         /\ DirectCacheMetadata(v, t, <<QualityOrder[1]>>, F)
    \/ \E F \in SUBSET CleanupFailPoints(backend, store) :
         /\ dres.n < MaxCalls
         /\ DirectCleanup(F)
    \/ \E v \in Videos, t \in Timestamps, q \in DurableQualities :
         /\ dres.n < MaxCalls
         /\ DirectGetScreenshot(v, t, q, {})
    \/ \E v \in Videos, t \in Timestamps :
         /\ dres.n < MaxCalls
         /\ DirectGetMetadata(v, t, {})
    \/ \E d \in TickSteps : Tick(d)

SpecCleanup == InitDurable /\ [][NextCleanup]_vars

\* The coherence check over what an earlier run left in the durable store:
\* the blobs of the qualities qs and, when m is some list, the metadata m.
EarlierStore(b, qs, m) ==
    LET blobs == {screenshot_name(b, v, t, q) : v \in Videos, t \in Timestamps, q \in qs}
        metas == IF m.some
                 THEN {metadata_name(b, v, t) : v \in Videos, t \in Timestamps}
                 ELSE {}
    IN [n \in blobs \cup metas |->
          IF n \in blobs THEN [content |-> <<1>>, time |-> 0]
          ELSE [content |-> IF b = "gcs" THEN json_dumps(m.val)
                            ELSE json_dump_indent2(m.val),
                time |-> 0]]

\* The lists an earlier run left: the first n qualities, for every n.
EarlierMetadata == {SubSeq(QualityOrder, 1, n) : n \in 0..Len(QualityOrder)}

InitCheck ==
    /\ backend = "gcs"
    /\ now = 0
    /\ store \in {EarlierStore("gcs", qs, m) :
                    qs \in SUBSET Qualities,
                    m \in {None} \cup {Some(l) : l \in EarlierMetadata}}
    /\ InitDres
    /\ InitFastCache
    /\ InitStreamCache
    /\ InitRequest
    /\ InitRateLimit

NextCheck ==
    \/ \E v \in Videos, t \in Timestamps : chk.n < MaxChecks /\ CheckStart(v, t)
    \/ ExecutorGetMetadata
    \/ CheckMetaResume
    \/ \E q \in Qualities : LookupStart(q)
    \/ \E q \in Qualities : ExecutorGetScreenshot(q)
    \/ \E q \in Qualities : ResumeGetScreenshot(q)
    \/ CheckDecide

SpecCheck == InitCheck /\ [][NextCheck]_vars

\* create_screenshots over what an earlier run left: nothing, everything of
\* the video, or the metadata and the blob of one quality.  The steps of the
\* event loop wait while the handler holds the loop; the threads of the
\* executor do not.
InitCreate ==
    /\ backend = "gcs"
    /\ now = 0
    /\ store \in {EarlierStore("gcs", {}, None),
                  EarlierStore("gcs", Qualities, Some(QualityOrder)),
                  EarlierStore("gcs", {QualityOrder[1]}, Some(<<QualityOrder[1]>>))}
    /\ InitDres
    /\ InitFastCache
    /\ InitStreamCache
    /\ InitRequest
    /\ InitRateLimit

NextCreate ==
    \/ \E url \in Urls, t \in Timestamps :
         req.n < MaxRequests /\ ~LoopHeld /\ CreateScreenshots(url, t)
    \/ \E valid \in BOOLEAN : ValidateTimestampReturns(valid)
    \/ ExecutorGetMetadata
    \/ ~LoopHeld /\ CheckMetaResume
    \/ \E q \in Qualities : ~LoopHeld /\ LookupStart(q)
    \/ \E q \in Qualities : ExecutorGetScreenshot(q)
    \/ \E q \in Qualities : ~LoopHeld /\ ResumeGetScreenshot(q)
    \/ ~LoopHeld /\ CheckDecide
    \/ AfterCheck
    \/ \E fresh \in {None} \cup {Some(m) : m \in RequestMaps}, took \in {0, 1} :
         ResolverReturns(fresh, took)
    \/ \E q \in Qualities, outcome \in ExtractOutcomes : ExtractFrame(q, outcome)
    \/ ~LoopHeld /\ GenerateReturns
    \/ \E q \in Qualities : ~LoopHeld /\ CacheScreenshotBackground(q)
    \/ BackgroundWrite

SpecCreate == InitCreate /\ [][NextCreate]_vars

\* cli_screenshot.
NextCli ==
    \/ \E url \in Urls, t \in Timestamps, q \in {QualityOrder[1], QualityOrder[3]} :
         req.n < MaxRequests /\ ~LoopHeld /\ CliScreenshot(url, t, q)
    \/ \E id \in FreeTasks : ExecutorGetScreenshot(id)
    \/ \E id \in FreeTasks : ~LoopHeld /\ ResumeGetScreenshot(id)
    \/ CliAfterLookup
    \/ \E outcome \in ExtractOutcomes : CliExtractReturns(outcome)

\* The requests of other clients: a preview of another quality, and a
\* store_screenshot of it; none starts after N steps of the event loop.
NextBeside(N) ==
    \/ \E v \in Videos, t \in Timestamps :
         /\ ev.n < N
         /\ ~LoopHeld
         /\ PreviewScreenshot(v, t, QualityOrder[2])
    \/ \E v \in Videos, t \in Timestamps :
         /\ ev.n < N
         /\ ~LoopHeld
         /\ StoreScreenshot(v, t, QualityOrder[2], Frame)

\* cli_screenshot beside the requests of other clients.
NextCliBeside ==
    \/ NextCli
    \/ \E fresh \in {None} \cup {Some(m) : m \in RequestMaps}, took \in {0, 1} :
         ResolverReturns(fresh, took)
    \/ NextBeside(MaxEvents - 1)
    \/ BackgroundWrite

SpecCliBeside == InitCreate /\ [][NextCliBeside]_vars

\* Both handlers beside the requests of other clients.
NextRequests == NextCreate \/ NextCli \/ NextBeside(MaxEvents - 2)

SpecRequests == InitCreate /\ [][NextRequests]_vars

\* The rate limiter alone: requests of two clients, under /api/ and not,
\* while time passes.
NextRateLimit ==
    \/ \E client_ip \in Clients, api \in BOOLEAN :
         rres.n < MaxRateCalls /\ RateLimitMiddleware(client_ip, api)
    \/ RateTick

SpecRateLimit == InitLRU /\ [][NextRateLimit]_vars

\* store_screenshot of two keys with two payloads, and the background writes,
\* none of which fails.
NextConverge ==
    \/ \E v \in Videos, t \in Timestamps, q \in {QualityOrder[1], QualityOrder[2]},
          d \in {<<1>>, <<2>>} :
         ev.n < MaxEvents - 1 /\ StoreScreenshot(v, t, q, d)
    \/ BackgroundWriteSucceeds

SpecConverge == InitLRU /\ [][NextConverge]_vars

\* LocalCache: get_cached_screenshot beside cache_screenshot on one file,
\* from an empty cache directory, while time passes.
WrittenBlobs == {<<2>>, <<1, 2>>}

InitOverwrite ==
    /\ backend = "local"
    /\ now = 0
    /\ store = [n \in {} |-> [content |-> <<>>, time |-> 0]]
    /\ InitDres
    /\ InitFastCache
    /\ InitStreamCache
    /\ InitRequest
    /\ InitRateLimit

NextOverwrite ==
    \/ \E v \in Videos, t \in Timestamps :
         /\ thr.get.n < MaxCalls
         /\ GetterCall("screenshot", screenshot_name(backend, v, t, QualityOrder[1]))
    \/ GetterExists
    \/ GetterIsFileExpired
    \/ GetterGetmtime
    \/ GetterRemove
    \/ GetterRead
    \/ GetterLog
    \/ \E v \in Videos, t \in Timestamps, image_data \in WrittenBlobs :
         /\ thr.put.n < MaxCalls
         /\ WriterCall(screenshot_name(backend, v, t, QualityOrder[1]), image_data)
    \/ WriterOpen
    \/ WriterWrite
    \/ WriterClose
    \/ \E d \in TickSteps : Tick(d)

SpecOverwrite == InitOverwrite /\ [][NextOverwrite]_vars

\* The purge beside a getter, over what an earlier run left, while time
\* passes: LocalCache or GCSCache, no write.
InitPurge ==
    /\ backend \in {"gcs", "local"}
    /\ now = 0
    /\ store \in {EarlierStore(backend, qs, m) :
                    qs \in SUBSET DurableQualities,
                    m \in {None, Some(<<QualityOrder[1]>>)}}
    /\ InitDres
    /\ InitFastCache
    /\ InitStreamCache
    /\ InitRequest
    /\ InitRateLimit

NextPurge ==
    \/ \E v \in Videos, t \in Timestamps, q \in DurableQualities :
         /\ thr.get.n < MaxCalls
         /\ GetterCall("screenshot", screenshot_name(backend, v, t, q))
    \/ \E v \in Videos, t \in Timestamps :
         /\ thr.get.n < MaxCalls
         /\ GetterCall("metadata", metadata_name(backend, v, t))
    \/ GetterExists
    \/ GetterReload
    \/ GetterDownload
    \/ GetterFallback
    \/ GetterIsFileExpired
    \/ GetterGetmtime
    \/ GetterRemove
    \/ GetterRead
    \/ GetterLog
    \/ thr.purge.n < MaxCalls /\ PurgeCall
    \/ PurgeEntry
    \/ PurgeNext
    \/ \E d \in TickSteps : Tick(d)

SpecPurge == InitPurge /\ [][NextPurge]_vars

-----------------------------------------------------------------------------
(* Claims about the memory tier *)

\* C1: the memory tier never holds more than max_memory_items entries, also
\* when a durable hit inserts into a full tier.
C1_MemoryBounded == Cardinality(DOMAIN memory_cache) <= max_memory_items

\* A durable hit has inserted a key that was not mapped into a full tier.
C1_Witness ==
    /\ ev.op = "durable_hit" /\ ~ev.raised /\ ev.full /\ ~ev.present
    /\ Cardinality(DOMAIN memory_cache) = max_memory_items

\* C2: access_order is a permutation of the keys of memory_cache: every
\* mapped key occurs exactly once in it and it holds no other key.
C2_AccessOrderIsPermutation ==
    /\ Range(access_order) = DOMAIN memory_cache
    /\ Len(access_order) = Cardinality(DOMAIN memory_cache)

\* C3: under every interleaving of lookups and stores, the keys of
\* memory_cache are the keys of access_order: no key is in one structure
\* and not in the other.
C3_SameKeySets ==
    /\ \A k \in DOMAIN memory_cache : k \in Range(access_order)
    /\ \A k \in Range(access_order) : k \in DOMAIN memory_cache

\* C4: an insert of a key that is not mapped into a full tier evicts exactly
\* one entry, the key stored or read least recently.
C4_EvictsLeastRecentlyUsed ==
    [][(/\ ev'.n = ev.n + 1
        /\ ev'.op \in {"store", "durable_hit"}
        /\ ~ev'.raised
        /\ ev'.key \notin DOMAIN memory_cache
        /\ Cardinality(DOMAIN memory_cache) = max_memory_items)
       => (/\ DOMAIN memory_cache \ DOMAIN memory_cache' = {TrueLRU(hist.touched)}
           /\ DOMAIN memory_cache' =
                (DOMAIN memory_cache \ {TrueLRU(hist.touched)}) \cup {ev'.key})]_vars

\* C5: store_screenshot(k, data) followed at once by get_screenshot(k) is a
\* memory hit that returns data, whatever the durable tier holds.
C5_StoreThenGet ==
    [][(/\ ev.op = "store" /\ ~ev.raised
        /\ ev'.n = ev.n + 1
        /\ ev'.op \in {"memory_hit", "memory_miss"}
        /\ ev'.key = ev.key)
       => (ev'.op = "memory_hit" /\ ~ev'.raised /\ ev'.result = ev.data)]_vars

\* A get_screenshot right after a store_screenshot of its key returned a
\* value while the durable tier holds another value for the key.
C5_Witness ==
    /\ ev.op = "memory_hit" /\ ev.after_store /\ ev.result.some
    /\ \E v \in Videos, t \in Timestamps, q \in Qualities :
         /\ cache_key(v, t, q) = ev.key
         /\ screenshot_name(backend, v, t, q) \in DOMAIN store
         /\ store[screenshot_name(backend, v, t, q)].content # ev.result.val

\* C6: once store_screenshot(k, d) has returned, and until k is stored again
\* or evicted, a get_screenshot(k) that starts returns d.
C6_ReadAfterWrite ==
    (ev.op = "memory_hit" /\ ~ev.raised /\ hist.stored[ev.key].some)
        => ev.result = hist.stored[ev.key]

-----------------------------------------------------------------------------
(* Claims about the coherence check *)

\* The check ran its lookups: the metadata was cached and not empty.
Checked == chk.pc = "done" /\ ~chk.raised /\ Truthy(chk.metadata)

BlobStored(q) == screenshot_name(backend, chk.v, chk.t, q) \in DOMAIN store

\* C7: check_cache_parallel returns the metadata only if every lookup it
\* issued returned a blob; with metadata cached and a blob missing from both
\* tiers it returns None.
C7_AllOrNothing ==
    /\ (chk.pc = "done" /\ chk.result.some) => (Checked /\ \A q \in Qualities : chk.images[q].some)
    /\ (Checked /\ \E q \in Qualities : ~chk.images[q].some) => chk.result = None
    /\ (Checked /\ \E q \in Qualities : ~BlobStored(q)) => chk.result = None

\* Metadata was cached, one blob at least was found and one was missing.
C7_Witness ==
    /\ Checked
    /\ \E q \in Qualities : chk.images[q].some
    /\ \E q \in Qualities : ~BlobStored(q)
    /\ chk.result = None

\* C8: when the blob of every quality the cached metadata lists is
\* retrievable, check_cache_parallel returns the metadata.
C8_ChecksListedQualities ==
    (Checked /\ \A q \in Range(chk.metadata.val) : chk.images[q].some)
        => chk.result = chk.metadata

-----------------------------------------------------------------------------
(* Claims about the durable store adapters *)

Getters == {"get_cached_screenshot", "get_cached_metadata"}

\* C9: for both adapters, get_cached_screenshot and get_cached_metadata never
\* return the content of an entry whose age is cache_duration or more.
C9_NeverReturnsExpired ==
    [][(dres'.n = dres.n + 1 /\ dres'.op \in Getters /\ dres'.result.some)
       => (/\ dres'.name \in DOMAIN store
           /\ now - store[dres'.name].time < cache_duration)]_vars

\* The existence check, the creation-time read or the content read (for the
\* blob of GCSCache: the download and its second attempt) failed.
ReadFailed(F) ==
    \/ "exists" \in F
    \/ "reload" \in F
    \/ "getmtime" \in F
    \/ "read" \in F
    \/ {"download", "fallback_download"} \subseteq F

\* C10: for both adapters, when one of these backend calls fails the getter
\* returns None and raises nothing.
C10_FailedReadGivesNone ==
    (dres.op \in Getters /\ ReadFailed(dres.fails))
        => (dres.result = None /\ ~dres.raised)

\* The call before this getter was the writer of the same entry, no backend
\* call of either failed, and less than cache_duration passed between them.
ReadOfFreshWrite ==
    /\ dres.op \in Getters /\ dres.fails = {}
    /\ dres.follows.write
    /\ dres.follows.elapsed < cache_duration

\* C11: for both adapters, cache_screenshot(k, data) followed by
\* get_cached_screenshot(k) before cache_duration elapses returns data, and
\* cache_metadata(k, records) followed by get_cached_metadata(k) returns
\* records, also when the write replaced an expired entry.
C11_DurableRoundTrip ==
    ReadOfFreshWrite => (dres.result = dres.follows.arg /\ ~dres.raised)

\* A getter returned what a write stored over an expired entry, some time
\* after the write.
C11_Witness ==
    /\ ReadOfFreshWrite
    /\ dres.follows.over_expired
    /\ dres.follows.elapsed > 0
    /\ dres.result.some

\* C12: a cleanup_expired_cache during which no backend call fails leaves
\* exactly the entries younger than cache_duration: every entry of age
\* cache_duration or more is gone, every younger entry is kept as it was.
C12_CleanupRemovesExpired ==
    [][(/\ dres'.n = dres.n + 1
        /\ dres'.op = "cleanup_expired_cache"
        /\ dres'.fails = {})
       => (/\ DOMAIN store' = {n \in DOMAIN store : now - store[n].time < cache_duration}
           /\ \A n \in DOMAIN store' : store'[n] = store[n])]_vars

\* C13: a getter that runs while cleanup_expired_cache deletes entries, under
\* every interleaving of their backend calls, returns the content that was
\* stored or None, and raises nothing.
C13_GetterBesidePurge ==
    thr.get.pc = "done"
        => (~thr.get.raised /\ thr.get.result \in {None, thr.get.orig})

\* A getter found its entry, the purge deleted it before the getter's next
\* backend call, and the getter returned None.
C13_Witness ==
    /\ thr.get.pc = "done" /\ thr.get.lost
    /\ thr.get.orig.some
    /\ thr.purge.n > 0
    /\ thr.get.result = None /\ ~thr.get.raised

\* LocalCache(cache_dir = "cache") keeps its files under this directory.
cache_dir == "cache"

\* What adapter b stores, in an empty store, for the write that dres records.
StoredBy(b, v, t, q) ==
    IF dres.op = "cache_screenshot"
    THEN cache_screenshot(b, EmptyMap, dres.at, v, t, q, dres.arg.val, {}).store
    ELSE cache_metadata(b, EmptyMap, dres.at, v, t, dres.arg.val, {}).store

\* C14: for the same arguments LocalCache and GCSCache store the same bytes
\* under the same relative name, screenshots/{v}_{t}_{q}.png for
\* cache_screenshot and metadata/{v}_{t}.json for cache_metadata.
C14_BackendsSubstitutable ==
    (dres.op \in {"cache_screenshot", "cache_metadata"} /\ dres.fails = {})
        => \A v \in Videos, t \in Timestamps, q \in Qualities :
             LET rel == IF dres.op = "cache_screenshot"
                        THEN "screenshots/" \o v \o "_" \o ToString(t) \o "_" \o q \o ".png"
                        ELSE "metadata/" \o v \o "_" \o ToString(t) \o ".json"
                 gcs == StoredBy("gcs", v, t, q)
                 local == StoredBy("local", v, t, q)
                 mine == IF backend = "gcs" THEN rel ELSE cache_dir \o "/" \o rel
             IN mine = dres.name
                  => /\ DOMAIN gcs = {rel}
                     /\ DOMAIN local = {cache_dir \o "/" \o rel}
                     /\ gcs[rel].content = local[cache_dir \o "/" \o rel].content
                     /\ store[dres.name].content = gcs[rel].content

-----------------------------------------------------------------------------
(* Claims about the write-back *)

\* A background write ran: it is the only step that takes a task from writes.
WriteRan == ev'.n = ev.n /\ writes' # writes

\* C15: store_screenshot and store_metadata return normally with the value
\* readable from the memory tier, and a background write, failed or not,
\* raises nothing into a caller and leaves the memory tier as it is.
C15_WriteFailureSwallowed ==
    [][/\ (ev'.n = ev.n + 1 /\ ev'.op = "store")
          => /\ ~ev'.raised
             /\ ev'.key \in DOMAIN memory_cache'
             /\ memory_cache'[ev'.key] = ev'.data.val
       /\ (ev'.n = ev.n + 1 /\ ev'.op = "store_metadata")
          => /\ ~ev'.raised
             /\ ev'.key \in DictKeys(metadata_cache')
             /\ metadata_cache'[DictGet(metadata_cache', ev'.key)].val = ev'.metadata
       /\ WriteRan
          => /\ memory_cache' = memory_cache /\ access_order' = access_order
             /\ metadata_cache' = metadata_cache
             /\ tasks' = tasks /\ cache_stats' = cache_stats]_vars

\* One store_screenshot, its background write ran and failed (the durable
\* tier does not hold the data), and the get_screenshot after it returned the
\* data from memory.
C15_Witness ==
    /\ ev.n = 2 /\ ev.op = "memory_hit" /\ ev.after_store /\ ~ev.raised
    /\ writes = EmptyMap
    /\ ev.result = hist.stored[ev.key]
    /\ \E v \in Videos, t \in Timestamps, q \in Qualities :
         /\ cache_key(v, t, q) = ev.key
         /\ store[screenshot_name(backend, v, t, q)].content # ev.result.val

\* The task the latest store_screenshot or store_metadata step scheduled.
Scheduled ==
    CHOOSE w \in WriteTasks :
        /\ w.op = IF ev.op = "store" THEN "screenshot" ELSE "metadata"
        /\ ev.key = IF ev.op = "store" THEN cache_key(w.v, w.t, w.q)
                    ELSE metadata_key(w.v, w.t)
        /\ IF ev.op = "store" THEN ev.data = Some(w.data)
           ELSE ev.metadata = w.metadata

\* C16: store_screenshot and store_metadata return with the durable write
\* scheduled and not yet done, and every scheduled background write
\* eventually runs its durable put, whatever the requests do meanwhile.
C16_WriteBackCompletes ==
    /\ [][(ev'.n = ev.n + 1 /\ ev'.op \in {"store", "store_metadata"} /\ ~ev'.raised)
            => (/\ store' = store
                /\ Scheduled' \in DOMAIN writes'
                /\ writes'[Scheduled'] =
                     IF Scheduled' \in DOMAIN writes
                     THEN writes[Scheduled'] + 1 ELSE 1)]_vars
    /\ \A w \in WriteTasks : (w \in DOMAIN writes) ~> (w \notin DOMAIN writes)

\* A store_screenshot returned, the next request was served, and the write
\* is still waiting to run.
C16_Witness ==
    /\ ev.op = "memory_hit" /\ ev.after_store
    /\ writes # EmptyMap
    /\ tasks = [id \in TaskIds |-> IdleTask]

-----------------------------------------------------------------------------
(* StreamCache *)

\* The streams and the timestamp the cache c holds for video_id.
StreamEntry(c, video_id) == c[DictGet(c, video_id)].val

\* C17: get_streams returns the cached streams when the cache holds an entry
\* for the video id whose age is strictly less than 30 minutes, and leaves
\* the cache as it is; otherwise it returns None and the cache holds no
\* entry for the video id, the other entries being untouched.
C17_GetStreamsTTL ==
    [][(sres'.n = sres.n + 1 /\ sres'.op = "get_streams")
       => LET video_id == sres'.video_id IN
          IF /\ video_id \in DictKeys(stream_cache)
             /\ stream_now - StreamEntry(stream_cache, video_id).timestamp
                  < stream_cache_duration
          THEN /\ sres'.result = Some(StreamEntry(stream_cache, video_id).streams)
               /\ stream_cache' = stream_cache
          ELSE /\ sres'.result = None
               /\ DictKeys(stream_cache') = DictKeys(stream_cache) \ {video_id}
               /\ \A k \in DictKeys(stream_cache') :
                    StreamEntry(stream_cache', k) = StreamEntry(stream_cache, k)]_vars

\* get_streams found an entry of exactly 30 minutes, returned None and
\* removed it.
C17_Witness ==
    /\ sres.op = "get_streams"
    /\ sres.held.some /\ sres.at - sres.held.val = stream_cache_duration
    /\ sres.result = None
    /\ sres.video_id \notin DictKeys(stream_cache)
    /\ Len(stream_cache) = sres.size - 1

\* C18: the stream cache never holds more than max_items entries, and a
\* cache_streams of a video id that is not cached into a cache of max_items
\* entries removes exactly one entry, one of the smallest timestamp, keeps
\* the others as they are and adds the new one: max_items entries remain.
C18_StreamCacheCapacity ==
    [][/\ Len(stream_cache) <= max_items
       /\ Len(stream_cache') <= max_items
       /\ (/\ sres'.n = sres.n + 1 /\ sres'.op = "cache_streams"
           /\ sres'.video_id \notin DictKeys(stream_cache)
           /\ Len(stream_cache) = max_items)
          => /\ Len(stream_cache') = max_items
             /\ \E removed \in DictKeys(stream_cache) :
                  /\ DictKeys(stream_cache') =
                       (DictKeys(stream_cache) \ {removed}) \cup {sres'.video_id}
                  /\ \A k \in DictKeys(stream_cache) :
                       StreamEntry(stream_cache, removed).timestamp
                         <= StreamEntry(stream_cache, k).timestamp
                  /\ \A k \in DictKeys(stream_cache) \ {removed} :
                       StreamEntry(stream_cache', k) = StreamEntry(stream_cache, k)
                  /\ StreamEntry(stream_cache', sres'.video_id).timestamp = stream_now]_vars

\* max_items + 1 calls, each the insert of a video id that was not cached,
\* the last one into a full cache: max_items entries remain, all of them
\* inserted after the clock started.
C18_Witness ==
    /\ sres.n = max_items + 1 /\ sres.op = "cache_streams"
    /\ ~sres.held.some /\ sres.size = max_items
    /\ Len(stream_cache) = max_items
    /\ \A k \in DictKeys(stream_cache) : StreamEntry(stream_cache, k).timestamp > 0

\* The cache holds an entry for video_id that is younger than 30 minutes.
Unexpired(video_id) ==
    /\ video_id \in DictKeys(stream_cache)
    /\ stream_now - StreamEntry(stream_cache, video_id).timestamp < stream_cache_duration

\* C19: a call of get_multiple_quality_streams_cached on a video id runs the
\* resolver exactly when the cache holds no unexpired entry for it; on an
\* unexpired entry it returns the cached streams; streams the resolver
\* found are cached when the call returns, and the next call on the same
\* video id less than 30 minutes later returns them without the resolver.
C19_ResolverOnlyOnMiss ==
    [][(/\ sres'.n = sres.n + 1
        /\ sres'.op = "get_multiple_quality_streams_cached"
        /\ sres'.video_id # 0)
       => LET video_id == sres'.video_id IN
          /\ sres'.resolved <=> ~Unexpired(video_id)
          /\ Unexpired(video_id)
               => /\ ~sres'.raised
                  /\ sres'.result = Some(StreamEntry(stream_cache, video_id).streams)
          /\ (sres'.resolved /\ sres'.fresh.some /\ sres'.fresh.val # EmptyMap)
               => /\ video_id \in DictKeys(stream_cache')
                  /\ StreamEntry(stream_cache', video_id) =
                       [streams |-> sres'.fresh.val, timestamp |-> stream_now']
          /\ (/\ sres.op = "get_multiple_quality_streams_cached"
              /\ sres.video_id = video_id
              /\ sres.resolved /\ sres.fresh.some /\ sres.fresh.val # EmptyMap
              /\ stream_now - sres.done < stream_cache_duration)
               => /\ ~sres'.resolved /\ ~sres'.raised
                  /\ sres'.result = sres.fresh]_vars

\* A call found the streams an earlier call had resolved and cached ten
\* minutes or more before, and returned them without the resolver.
C19_Witness ==
    /\ sres.op = "get_multiple_quality_streams_cached"
    /\ sres.n >= 2 /\ ~sres.resolved /\ ~sres.raised
    /\ sres.held.some /\ sres.at > sres.held.val
    /\ sres.result.some /\ sres.result.val # EmptyMap
    /\ sres.result.val = StreamEntry(stream_cache, sres.video_id).streams

-----------------------------------------------------------------------------
(* cache_stats *)

StatFields == {"hits", "misses", "memory_hits", "gcs_hits"}

\* The counters add up to the get_screenshot calls that are over.
Accounted ==
    /\ cache_stats["hits"] = cache_stats["memory_hits"] + cache_stats["gcs_hits"]
    /\ cache_stats["hits"] + cache_stats["misses"] = hist.completed

\* Exactly one of the counters f and g went up, by one; the other stayed.
OneWentUp(f, g) ==
    \/ cache_stats'[f] = cache_stats[f] + 1 /\ cache_stats'[g] = cache_stats[g]
    \/ cache_stats'[f] = cache_stats[f] /\ cache_stats'[g] = cache_stats[g] + 1

\* C20: no step lowers a counter; the step that ends a get_screenshot call
\* raises exactly one of hits and misses by one, a hit raising exactly one of
\* memory_hits and gcs_hits by one and a miss neither; every other step
\* leaves the counters alone; so hits = memory_hits + gcs_hits and
\* hits + misses = the number of get_screenshot calls that are over, before
\* and after every step.
C20_CountersAccount ==
    [][/\ Accounted /\ Accounted'
       /\ \A f \in StatFields : cache_stats'[f] >= cache_stats[f]
       /\ hist'.completed = hist.completed + 1
            => /\ OneWentUp("hits", "misses")
               /\ IF cache_stats'["hits"] > cache_stats["hits"]
                  THEN OneWentUp("memory_hits", "gcs_hits")
                  ELSE /\ cache_stats'["memory_hits"] = cache_stats["memory_hits"]
                       /\ cache_stats'["gcs_hits"] = cache_stats["gcs_hits"]
       /\ hist'.completed = hist.completed => cache_stats' = cache_stats]_vars

\* Two get_screenshot calls are over, a memory hit and a miss, and counted;
\* nothing else was counted.
C20_Witness ==
    /\ hist.completed = 2
    /\ cache_stats = [hits |-> 1, misses |-> 1, memory_hits |-> 1, gcs_hits |-> 0]
    /\ ev.op = "miss"

-----------------------------------------------------------------------------
(* FastCache: metadata *)

\* C21: the in-memory metadata mapping never holds more than 50 entries
\* (metadata_max in the model).
C21_MetadataBounded == Len(metadata_cache) <= metadata_max

\* Neither tier holds a list for (v, t), and no write of one is scheduled.
MetadataAbsent(v, t) ==
    /\ metadata_key(v, t) \notin DictKeys(metadata_cache)
    /\ metadata_name(backend, v, t) \notin DOMAIN store
    /\ \A w \in DOMAIN writes : ~(w.op = "metadata" /\ w.v = v /\ w.t = t)

\* C22: a get_cached_metadata for a pair that neither tier holds gets None
\* from the durable lookup, which raises nothing and leaves the store as it
\* is, whatever backend call fails; and a get_cached_metadata whose durable
\* lookup gave None returns None, raises nothing and leaves the metadata
\* mapping as it is.
C22_MetadataMissIsNone ==
    [][/\ (chk.pc = "gm_wait" /\ chk'.pc = "gm_fetched" /\ MetadataAbsent(chk.v, chk.t))
          => (chk'.metadata = None /\ ~chk'.raised /\ store' = store)
       /\ (chk.pc = "gm_fetched" /\ chk'.pc = "done" /\ chk.metadata = None)
          => /\ chk'.result = None /\ ~chk'.raised
             /\ metadata_cache' = metadata_cache]_vars

\* A get_cached_metadata returned None for a pair no tier holds, while the
\* mapping holds the list of another pair.
C22_Witness ==
    /\ chk.pc = "done" /\ chk.n > 0 /\ chk.result = None /\ ~chk.raised
    /\ MetadataAbsent(chk.v, chk.t)
    /\ metadata_cache # <<>>

\* The step in which create_screenshots returns the response of a miss.
MissResponds ==
    /\ req.pc # "done"
    /\ req'.pc = "done"
    /\ req'.op = "create_screenshots"
    /\ req'.response.status = 200
    /\ ~req'.response.cached

\* C23: when create_screenshots returns the response of a cache miss, the
\* memory tier holds the blob of every screenshot it generated and the
\* metadata list of the request.
C23_CachedBeforeResponse ==
    [][MissResponds =>
          /\ \A q \in Range(req'.response.screenshots) :
                /\ cache_key(req'.v, req'.t, q) \in DOMAIN memory_cache'
                /\ memory_cache'[cache_key(req'.v, req'.t, q)] = Frame
          /\ metadata_key(req'.v, req'.t) \in DictKeys(metadata_cache')
          /\ metadata_cache'[DictGet(metadata_cache', metadata_key(req'.v, req'.t))].val
                = req'.response.screenshots]_vars

\* The step in which create_screenshots answers from the cache.
CachedResponds ==
    /\ req.pc # "done"
    /\ req'.pc = "done"
    /\ req'.op = "create_screenshots"
    /\ req'.response.cached

\* C24: check_cache_parallel starts a lookup without waiting for the lookups
\* it started before; it decides only when every lookup has returned, and
\* gives a result only when every lookup found its image; create_screenshots
\* answers cached=true only with the result of such a check.
C24_DecideAfterAllLookups ==
    /\ []((chk.pc = "lookups" /\ \E q \in Qualities : tasks[q].pc = "ready")
             => ENABLED (\E q \in Qualities : LookupStart(q)))
    /\ [][/\ (chk.pc = "lookups" /\ chk'.pc = "done") =>
                /\ \A q \in Qualities : tasks[q].pc = "done"
                /\ chk'.result.some => \A q \in Qualities : tasks[q].result.some
          /\ CachedResponds =>
                /\ chk.pc = "done"
                /\ Truthy(chk.result)
                /\ CompleteHit(chk.images)
                /\ req'.response.status = 200
                /\ req'.response.screenshots = chk.result.val]_vars

\* create_screenshots answered cached=true after a check of four lookups.
C24_Witness ==
    /\ req.op = "create_screenshots"
    /\ req.pc = "done"
    /\ req.response.cached
    /\ req.response.screenshots = QualityOrder
    /\ chk.n > 0
    /\ CompleteHit(chk.images)

\* The qualities whose extraction succeeded.
Extracted(r) == {q \in DOMAIN r.streams : r.results[q] = "ok"}

\* C25: the failure of one extraction leaves the results of the others as
\* they are; when gather has returned, create_screenshots answers 200 with
\* exactly the qualities that were extracted, and has stored that list as
\* the metadata, when there is one, and fails (500) only when there is none.
C25_FailureConfined ==
    [][/\ (req.pc = "extracting" /\ req'.pc = "extracting") =>
             \A q \in Qualities : req.results[q] # "" => req'.results[q] = req.results[q]
       /\ (req.pc = "extracting" /\ req'.pc = "done") =>
             IF Extracted(req) = {}
             THEN /\ req'.response.status = 500
                  /\ metadata_cache' = metadata_cache
             ELSE /\ req'.response.status = 200
                  /\ ~req'.response.cached
                  /\ Range(req'.response.screenshots) = Extracted(req)
                  /\ Len(req'.response.screenshots) = Cardinality(Extracted(req))
                  /\ metadata_key(req.v, req.t) \in DictKeys(metadata_cache')
                  /\ metadata_cache'[DictGet(metadata_cache',
                                             metadata_key(req.v, req.t))].val
                        = req'.response.screenshots
                  /\ \E w \in DOMAIN writes' :
                        /\ w.op = "metadata"
                        /\ w.metadata = req'.response.screenshots]_vars

\* A request answered with one quality after the extraction of the other
\* failed.
C25_Witness ==
    /\ req.op = "create_screenshots"
    /\ req.pc = "done"
    /\ req.response.status = 200
    /\ ~req.response.cached
    /\ req.results[QualityOrder[1]] \in {"failed", "raised"}
    /\ req.response.screenshots = <<QualityOrder[2]>>
    /\ metadata_key(req.v, req.t) \in DictKeys(metadata_cache)

\* The handler of req waits for an external tool: yt-dlp of
\* validate_timestamp, yt-dlp of the resolver (the stream cache has no fresh
\* streams of the video), or ffmpeg.
WaitsOnTool ==
    \/ req.pc = "validating"
    \/ /\ req.pc = "resolving"
       /\ ~TruthyDict(get_streams(stream_cache, stream_now, StreamVideoOf(req.url)).result)
    \/ req.pc = "cli_extracting"
    \/ req.pc = "extracting" /\ \E q \in DOMAIN req.streams : req.results[q] = ""

\* The event loop can run the handler of another client's request: a
\* preview that calls get_screenshot.
OtherHandlerCanStep ==
    ENABLED (\E v \in Videos, t \in Timestamps, q \in Qualities :
                ~LoopHeld /\ PreviewScreenshot(v, t, q))

\* C26: while a request waits for an external tool, the handler of another
\* request can take a step.
C26_ToolsOffTheLoop ==
    (WaitsOnTool /\ tasks["req2"].pc = "idle") => OtherHandlerCanStep

\* C28: the status the client receives is the status of the HTTPException
\* the handler raised: 400 for the invalid url, the invalid timestamp and the
\* quality that is not among the streams, 404 for no streams.
C28_RaisedStatusReachesClient ==
    (req.pc = "done" /\ req.response.raised # 0)
        => req.response.status = req.response.raised

\* get_screenshot of cli_screenshot is suspended on the durable store.
Suspended == req.pc = "cli_lookup" /\ tasks["req1"].pc = "wait"

OtherKeys == {q \in Qualities : q # req.q}

\* C27: while a get_screenshot is suspended on the durable store, the event
\* loop can start a get_screenshot and run a store_screenshot of another
\* key, the executor can run the durable lookup of another get_screenshot,
\* and the event loop can resume it.
C27_LookupDoesNotBlock ==
    Suspended =>
       /\ tasks["req2"].pc = "idle" =>
             \A q \in OtherKeys :
                ENABLED (~LoopHeld /\ PreviewScreenshot(req.v, req.t, q))
       /\ \A q \in OtherKeys :
             ENABLED (~LoopHeld /\ StoreScreenshot(req.v, req.t, q, Frame))
       /\ tasks["req2"].pc = "wait" => ENABLED ExecutorGetScreenshot("req2")
       /\ tasks["req2"].pc = "fetched" =>
             ENABLED (~LoopHeld /\ ResumeGetScreenshot("req2"))

\* While the lookup of cli_screenshot is suspended, a get_screenshot of
\* another key has just started and returned its image.
C27_Witness ==
    /\ Suspended
    /\ ev.op = "memory_hit"
    /\ ev.key # cache_key(req.v, req.t, req.q)
    /\ ev.result = Some(Frame)
    /\ tasks["req2"].pc = "idle"

\* The durable lookup of the task id returned the bytes of an entry that is
\* in the durable store and has not expired.
DurableGave(id) ==
    LET name == screenshot_name(backend, tasks[id].v, tasks[id].t, tasks[id].q) IN
    /\ tasks[id].pc = "fetched"
    /\ tasks[id].image_data.some
    /\ name \in DOMAIN store
    /\ ~Expired(store, now, name)
    /\ store[name].content = tasks[id].image_data.val

\* C29: a get_screenshot that missed the memory tier and got the bytes of an
\* unexpired durable entry returns them, counts a durable hit and leaves the
\* key in the memory tier; a get_screenshot of a key the memory tier holds is
\* a memory hit that returns at once, without a durable lookup.
C29_FallbackRepopulates ==
    [][/\ \A id \in FreeTasks :
             (DurableGave(id) /\ tasks'[id].pc = "idle") =>
                LET key == cache_key(tasks[id].v, tasks[id].t, tasks[id].q) IN
                /\ ev'.op = "durable_hit"
                /\ ev'.result = tasks[id].image_data
                /\ cache_stats'.gcs_hits = cache_stats.gcs_hits + 1
                /\ key \in DOMAIN memory_cache'
                /\ memory_cache'[key] = tasks[id].image_data.val
       /\ (/\ ev'.n = ev.n + 1
           /\ ev'.op \in {"memory_hit", "memory_miss"}
           /\ ev'.key \in DOMAIN memory_cache) =>
                /\ ev'.op = "memory_hit"
                /\ ev'.result = Some(memory_cache[ev'.key])
                /\ store' = store
                /\ \A id \in TaskIds : tasks'[id].pc = "wait" => tasks[id].pc = "wait"]_vars

\* C30: when get_cached_screenshot or get_cached_metadata, no backend call
\* failing, returns None for an entry of age cache_duration or more, the
\* entry is no longer in the durable store.
C30_ExpiredReadRemoves ==
    [][(/\ dres'.n = dres.n + 1
        /\ dres'.op \in {"get_cached_screenshot", "get_cached_metadata"}
        /\ dres'.was_expired
        /\ dres'.fails = {}
        /\ dres'.result = None)
          => dres'.name \notin DOMAIN store']_vars

\* The list metadata_cache maps the key of (v, t) to.
MemoryMetadata(d, v, t) == d[DictGet(d, metadata_key(v, t))].val

\* C31: store_metadata leaves its list in metadata_cache; a
\* get_cached_metadata of a key metadata_cache holds returns that list at
\* once, the durable store untouched; and a get_cached_metadata that the
\* durable store gave a list leaves the key in metadata_cache, so that the
\* next one is answered from memory.
C31_MetadataMemoryFirst ==
    [][/\ (ev'.n = ev.n + 1 /\ ev'.op = "store_metadata") =>
             /\ ev'.key \in DictKeys(metadata_cache')
             /\ metadata_cache'[DictGet(metadata_cache', ev'.key)].val = ev'.metadata
       /\ (chk'.n = chk.n + 1
             /\ metadata_key(chk'.v, chk'.t) \in DictKeys(metadata_cache)) =>
             /\ chk'.pc = "done"
             /\ chk'.result = Some(MemoryMetadata(metadata_cache, chk'.v, chk'.t))
             /\ store' = store
       /\ (chk.pc = "gm_fetched" /\ chk'.pc = "done"
             /\ chk.metadata.some /\ ~chk.raised) =>
             /\ chk'.result = chk.metadata
             /\ metadata_key(chk.v, chk.t) \in DictKeys(metadata_cache')]_vars

\* The admitted requests of the client c that are no older than RATE_WINDOW
\* at the time clock.
RecentlyAdmitted(c, clock) ==
    {i \in 1..Len(rres.history[c]) : clock - rres.history[c][i] <= RATE_WINDOW}

\* C32: a request under /api/ is rejected exactly when RATE_LIMIT admitted
\* requests of its client are no older than RATE_WINDOW; a rejected request
\* is not recorded; the queue of another client does not change; no queue
\* holds more than RATE_LIMIT times; and no window of RATE_WINDOW holds more
\* than RATE_LIMIT admitted requests of one client.
C32_RateLimit ==
    /\ [](\A c \in Clients :
            /\ Len(request_counts[c]) <= RATE_LIMIT
            /\ \A w \in 0..MaxRateNow :
                  Cardinality({i \in 1..Len(rres.history[c]) :
                                  /\ w <= rres.history[c][i]
                                  /\ rres.history[c][i] <= w + RATE_WINDOW})
                     <= RATE_LIMIT)
    /\ [][(rres'.n = rres.n + 1 /\ rres'.api) =>
             LET c == rres'.client_ip IN
             /\ rres'.admitted =
                   (Cardinality(RecentlyAdmitted(c, rate_now)) < RATE_LIMIT)
             /\ rres'.status = IF rres'.admitted THEN 0 ELSE 429
             /\ ~rres'.admitted =>
                   /\ rres'.history = rres.history
                   /\ Len(request_counts'[c]) = Len(request_counts[c])
                         \/ \E i \in 1..Len(request_counts[c]) :
                               request_counts'[c] =
                                  SubSeq(request_counts[c], i, Len(request_counts[c]))
                   /\ Len(request_counts'[c]) = RATE_LIMIT
             /\ \A c2 \in Clients \ {c} :
                   request_counts'[c2] = request_counts[c2]]_vars

\* A client was rejected at the limit while the other client, asking at the
\* same time, was admitted.
C32_Witness ==
    /\ rres.api
    /\ ~rres.admitted
    /\ rres.status = 429
    /\ Len(request_counts[rres.client_ip]) = RATE_LIMIT
    /\ \E c \in Clients \ {rres.client_ip} :
          /\ request_counts[c] # <<>>
          /\ request_counts[c][Len(request_counts[c])] = rres.at

\* A background write of the screenshot (v, t, q) is still scheduled.
WritePending(v, t, q) ==
    \E w \in DOMAIN writes : w.op = "screenshot" /\ w.v = v /\ w.t = t /\ w.q = q

C34_RestoreOnlyReplaces ==
    [][(/\ ev'.n = ev.n + 1
        /\ ev'.op \in {"store", "durable_hit"}
        /\ ~ev'.raised
        /\ ev'.key \in DOMAIN memory_cache) =>
          /\ \A k \in DOMAIN memory_cache \ {ev'.key} :
                /\ k \in DOMAIN memory_cache'
                /\ memory_cache'[k] = memory_cache[k]
          /\ Cardinality(DOMAIN memory_cache') >= Cardinality(DOMAIN memory_cache)]_vars

\* C35: cache_streams of a video id the cache already holds leaves every
\* other entry, its streams and its creation time, as it is.
C35_RecacheOnlyReplaces ==
    [][(/\ sres'.n = sres.n + 1
        /\ sres'.op = "cache_streams"
        /\ sres'.video_id \in DictKeys(stream_cache)) =>
          \A i \in 1..Len(stream_cache) :
             stream_cache[i].key # sres'.video_id =>
                \E j \in 1..Len(stream_cache') : stream_cache'[j] = stream_cache[i]]_vars

\* C36: a durable read never observes a write in progress: what
\* LocalCache.get_cached_screenshot returns beside cache_screenshot calls on the
\* same file is None or a byte sequence that was passed in full to one of
\* those calls, never an empty or truncated blob.
C36_ReadsWholeBlob ==
    (thr.get.pc = "done" /\ thr.get.kind = "screenshot" /\ thr.get.result.some)
    => \E p \in thr.put.passed :
         p.name = thr.get.name /\ p.image_data = thr.get.result.val

\* C37: in every reachable state every key of memory_cache occurs at least
\* once in access_order; so the eviction loop of _store_in_memory never pops
\* from an empty deque and the access_order.remove of a memory hit never
\* fails: no insert and no memory hit raises.
C37_MappedKeysAreQueued ==
    /\ \A k \in DOMAIN memory_cache : k \in Range(access_order)
    /\ ev.op \in {"store", "durable_hit", "memory_hit"} => ~ev.raised
    /\ \A k \in DOMAIN memory_cache : ~touch_access_order(access_order, k).raised
    /\ \A k \in CacheKeys :
         ~store_in_memory(memory_cache, access_order, k, <<1>>).raised

\* An insert into a full tier has evicted while access_order holds a key more
\* than once and a key that is no longer mapped.
C37_Witness ==
    /\ ev.op \in {"store", "durable_hit"} /\ ev.full /\ ~ev.raised
    /\ Len(access_order) > Cardinality(Range(access_order))
    /\ \E k \in Range(access_order) : k \notin DOMAIN memory_cache
    /\ \A k \in DOMAIN memory_cache : k \in Range(access_order)

\* The entry of video_id in the cache c is at least 30 minutes old at clock.
StreamExpired(c, clock, video_id) ==
    clock - StreamEntry(c, video_id).timestamp >= stream_cache_duration

\* C38: with a monotone clock, cache_streams never evicts an unexpired entry
\* while an expired entry (age at least 30 minutes) is still in the cache:
\* every entry a call removes is one of the smallest timestamp, and when it
\* was unexpired the cache held no expired entry.
C38_ExpiredLeaveFirst ==
    [][/\ stream_now' >= stream_now
       /\ (sres'.n = sres.n + 1 /\ sres'.op = "cache_streams")
          => \A k \in DictKeys(stream_cache) \ DictKeys(stream_cache') :
                /\ \A j \in DictKeys(stream_cache) :
                      StreamEntry(stream_cache, k).timestamp
                        <= StreamEntry(stream_cache, j).timestamp
                /\ ~StreamExpired(stream_cache, stream_now, k)
                   => \A j \in DictKeys(stream_cache) :
                         ~StreamExpired(stream_cache, stream_now, j)]_vars

\* cache_streams of a video id that was not cached has found max_items
\* entries, an expired one among them, and evicted: no entry of that oldest
\* timestamp is left, and an entry that was unexpired then is still cached.
C38_Witness ==
    /\ sres.op = "cache_streams" /\ ~sres.held.some /\ sres.size = max_items
    /\ sres.oldest.some
    /\ sres.at - sres.oldest.val >= stream_cache_duration
    /\ \A k \in DictKeys(stream_cache) :
         StreamEntry(stream_cache, k).timestamp > sres.oldest.val
    /\ \E k \in DictKeys(stream_cache) \ {sres.video_id} :
         sres.at - StreamEntry(stream_cache, k).timestamp < stream_cache_duration

====
